---- MODULE Spec2Model ----
(***************************************************************************)
(* Model of the rover / granular-terrain co-simulation driver              *)
(* (src/rovertest.cpp): command-line handling, set-up of the two solvers,  *)
(* the coupling loop with its float time accumulator, the staged chassis   *)
(* release, the frame cadence and the end-of-phase checkpoint; and the     *)
(* text of a checkpoint file as it is written and read back.               *)
(***************************************************************************)
EXTENDS Integers, Sequences, FiniteSets, TLC

(***************************************************************************)
(* Binary floating point.  The loop variable t is a float, iteration_step  *)
(* is a double.  Values are held exactly as unsigned                       *)
(* fixed-point numbers: a sequence of NLimbs 16-bit limbs, least           *)
(* significant first, of which the FracLimbs lowest are the fraction.      *)
(* Rounding to 24 or 53 significant bits is round-to-nearest-even, as the  *)
(* hardware does it.                                                       *)
(***************************************************************************)
LimbBits == 16
LimbBase == 2 ^ LimbBits
FracLimbs == 7
NLimbs == FracLimbs + 1
FracBits == FracLimbs * LimbBits

\* significand widths of float (the type of t) and double (the type of
\* iteration_step)
FloatBits == 24
DoubleBits == 53

Limb(x, i) == IF i >= 1 /\ i <= NLimbs THEN x[i] ELSE 0

FxZero == [i \in 1..NLimbs |-> 0]

\* the integer n (0 <= n < 2^16) as a fixed-point number
FxInt(n) == [i \in 1..NLimbs |-> IF i = NLimbs THEN n ELSE 0]

\* 2^k for a bit index k counted from the least significant fraction bit
FxPow2(k) == [i \in 1..NLimbs |-> IF i = (k \div LimbBits) + 1 THEN 2 ^ (k % LimbBits) ELSE 0]

FxBit(x, k) == IF k < 0 THEN 0 ELSE (Limb(x, (k \div LimbBits) + 1) \div (2 ^ (k % LimbBits))) % 2

FxShiftRight(x, s) ==
    LET a == s \div LimbBits
        b == s % LimbBits
    IN  [i \in 1..NLimbs |->
            (Limb(x, i + a) \div (2 ^ b))
            + (Limb(x, i + a + 1) % (2 ^ b)) * (2 ^ (LimbBits - b))]

FxShiftLeft(x, s) ==
    LET a == s \div LimbBits
        b == s % LimbBits
    IN  [i \in 1..NLimbs |->
            ((Limb(x, i - a) % (2 ^ (LimbBits - b))) * (2 ^ b))
            + (Limb(x, i - a - 1) \div (2 ^ (LimbBits - b)))]

RECURSIVE FxAddCarry(_, _, _)
\* the carry into limb i of x + y
FxAddCarry(x, y, i) ==
    IF i = 1 THEN 0
    ELSE (x[i - 1] + y[i - 1] + FxAddCarry(x, y, i - 1)) \div LimbBase

FxAdd(x, y) == [i \in 1..NLimbs |-> (x[i] + y[i] + FxAddCarry(x, y, i)) % LimbBase]

RECURSIVE FxMulCarry(_, _, _)
\* the carry into limb i of x * k, for a small integer k
FxMulCarry(x, k, i) ==
    IF i = 1 THEN 0
    ELSE (x[i - 1] * k + FxMulCarry(x, k, i - 1)) \div LimbBase

FxMulSmall(x, k) == [i \in 1..NLimbs |-> (x[i] * k + FxMulCarry(x, k, i)) % LimbBase]

FxLess(x, y) ==
    \E i \in 1..NLimbs : x[i] < y[i] /\ \A j \in (i + 1)..NLimbs : x[j] = y[j]

FxLeq(x, y) == x = y \/ FxLess(x, y)

\* index of the most significant set bit of a non-zero x
FxMSB(x) ==
    LET top == CHOOSE i \in 1..NLimbs : x[i] > 0 /\ \A j \in (i + 1)..NLimbs : x[j] = 0
        b == CHOOSE c \in 0..(LimbBits - 1) : 2 ^ c <= x[top] /\ x[top] < 2 ^ (c + 1)
    IN  (top - 1) * LimbBits + b

\* TRUE iff the n lowest bits of x are all zero
FxLowZero(x, n) ==
    /\ \A i \in 1..(n \div LimbBits) : Limb(x, i) = 0
    /\ Limb(x, (n \div LimbBits) + 1) % (2 ^ (n % LimbBits)) = 0

\* x rounded to p significant bits, ties to even; sticky tells that x itself
\* is a truncation of a slightly larger value
RoundToBits(x, sticky, p) ==
    IF x = FxZero THEN x
    ELSE LET s == FxMSB(x) - p + 1
         IN  IF s <= 0 THEN x
             ELSE LET guard == FxBit(x, s - 1) = 1
                      rest == sticky \/ ~FxLowZero(x, s - 1)
                      odd == FxBit(x, s) = 1
                      trunc == FxShiftLeft(FxShiftRight(x, s), s)
                  IN  IF guard /\ (rest \/ odd) THEN FxAdd(trunc, FxPow2(s)) ELSE trunc

RECURSIVE FxDivRem(_, _, _)
\* remainder left after producing limb i of n / d (long division, top down)
FxDivRem(n, d, i) ==
    IF i = NLimbs THEN n % d ELSE (FxDivRem(n, d, i + 1) * LimbBase) % d

\* n / d truncated to the fixed-point resolution (d < 2^15, n / d < 2^16)
FxRational(n, d) ==
    [i \in 1..NLimbs |->
        IF i = NLimbs THEN n \div d ELSE (FxDivRem(n, d, i + 1) * LimbBase) \div d]

\* params.step_size: the parser reads the decimal n / d as the nearest double
\* and stores it in a field of `bits` significant bits (24 if the field is a
\* float, 53 if it is a double); double iteration_step = params.step_size then
\* widens it without change
StepSizeField(n, d, bits) ==
    RoundToBits(RoundToBits(FxRational(n, d), FxDivRem(n, d, 1) # 0, DoubleBits),
                FALSE, bits)

FxOne == FxInt(1)
\* the literal 0.5
FxHalf == FxPow2(FracBits - 1)

\* t += iteration_step: the float t is widened to double, the double sum is
\* rounded, and the assignment narrows it to float again
FloatAdd(t, h) ==
    RoundToBits(RoundToBits(FxAdd(t, h), FALSE, DoubleBits), FALSE, FloatBits)

\* unsigned int out_fps = 50
out_fps == 50

RECURSIVE FloorInv(_, _)
\* the largest integer j >= k with j * p <= 1
FloorInv(p, k) ==
    IF FxLeq(FxMulSmall(p, k + 1), FxOne) THEN FloorInv(p, k + 1) ELSE k

\* floor(log2(n)) for an integer n >= 1
Log2Floor(n) == CHOOSE e \in 0..(LimbBits - 1) : 2 ^ e <= n /\ n < 2 ^ (e + 1)

\* TRUE iff the double quotient 1 / p rounds up to the integer K: 1 / p is at
\* least the midpoint between K and the double just below K
QuotientRoundsTo(p, K) ==
    LET e == IF K = 1 THEN 0 - 1 ELSE Log2Floor(K - 1)
    IN  FxLeq(FxMulSmall(p, K), FxAdd(FxOne, FxShiftRight(p, DoubleBits - e)))

\* unsigned int out_steps = 1 / (out_fps * iteration_step): the product and the
\* quotient are doubles, the conversion to unsigned truncates toward zero
OutSteps(h) ==
    LET prod == RoundToBits(FxMulSmall(h, out_fps), FALSE, DoubleBits)
        k == FloorInv(prod, 0)
    IN  IF QuotientRoundsTo(prod, k + 1) THEN k + 1 ELSE k


(***************************************************************************)
(* Natural numbers of any size: a sequence of limbs, least significant     *)
(* first, without leading zero limbs (zero is the empty sequence).  They   *)
(* carry the exact value of a decimal or hexadecimal text until it is      *)
(* rounded to a float.                                                     *)
(***************************************************************************)
\* x without its leading zero limbs
BigNorm(x) ==
    IF \A i \in 1..Len(x) : x[i] = 0 THEN <<>>
    ELSE SubSeq(x, 1, CHOOSE k \in 1..Len(x) :
                          x[k] # 0 /\ \A j \in (k + 1)..Len(x) : x[j] = 0)

\* The operations below work on halves of their argument, so that their
\* depth grows with the logarithm of its length.
\* one limb of a product and the carry out of it
MulAddLimb(v) == [q |-> <<v % LimbBase>>, c |-> v \div LimbBase]

\* the limbs of the lower and of the upper half, and the carry of the upper
JoinProduct(loq, hi) == [q |-> loq \o hi.q, c |-> hi.c]

RECURSIVE MulAddLimbs(_, _, _)
RECURSIVE MulAddUpper(_, _, _)
\* the limbs of x * m + a for small m and a, as many as x has, and the carry
MulAddLimbs(x, m, a) ==
    IF x = <<>> THEN [q |-> <<>>, c |-> a]
    ELSE IF Len(x) = 1 THEN MulAddLimb(x[1] * m + a)
    ELSE MulAddUpper(x, m, MulAddLimbs(SubSeq(x, 1, Len(x) \div 2), m, a))

\* the lower half lo is multiplied first: its carry goes into the upper half
MulAddUpper(x, m, lo) ==
    IF lo.q # <<>>
    THEN JoinProduct(lo.q, MulAddLimbs(SubSeq(x, (Len(x) \div 2) + 1, Len(x)), m, lo.c))
    ELSE lo

\* the limbs and the carry as one natural
BigJoin(r) == BigNorm(r.q \o <<r.c>>)

\* x * m + a for small m and a
BigMulAdd(x, m, a) == BigJoin(MulAddLimbs(x, m, a))

\* one limb of a quotient and the remainder left
DivLimb(v, d) == [q |-> <<v \div d>>, r |-> v % d]

\* the limbs of the lower and of the upper half, and the remainder of the lower
JoinQuotient(lo, hiq) == [q |-> lo.q \o hiq, r |-> lo.r]

RECURSIVE DivLimbs(_, _, _)
RECURSIVE DivLower(_, _, _)
\* quotient limbs and remainder of (r * LimbBase^Len(x) + x) / d for small d
\* and r < d
DivLimbs(x, d, r) ==
    IF x = <<>> THEN [q |-> <<>>, r |-> r]
    ELSE IF Len(x) = 1 THEN DivLimb(r * LimbBase + x[1], d)
    ELSE DivLower(x, d, DivLimbs(SubSeq(x, (Len(x) \div 2) + 1, Len(x)), d, r))

\* the upper half hi is divided first: its remainder goes into the lower half
DivLower(x, d, hi) ==
    IF hi.r < d
    THEN JoinQuotient(DivLimbs(SubSeq(x, 1, Len(x) \div 2), d, hi.r), hi.q)
    ELSE [q |-> <<>>, r |-> d]

\* the quotient limbs as a natural
NormQuotient(r) == [q |-> BigNorm(r.q), r |-> r.r]

\* quotient and remainder of x / d for small d
BigDivSmall(x, d) == NormQuotient(DivLimbs(x, d, 0))

\* the largest power of m taken in one step, with the power itself
PowChunk == 3
RECURSIVE SmallPow(_, _)
SmallPow(m, k) == IF k = 0 THEN 1 ELSE m * SmallPow(m, k - 1)

RECURSIVE BigTimesPow(_, _, _)
\* x * m^k
BigTimesPow(x, m, k) ==
    IF k = 0 \/ x = <<>> THEN x
    ELSE IF k <= PowChunk THEN BigMulAdd(x, SmallPow(m, k), 0)
    ELSE BigTimesPow(BigTimesPow(x, m, k \div 2), m, k - (k \div 2))

\* a quotient, and whether anything was cut off before or by the division
CutQuotient(r, cut) == [q |-> r.q, cut |-> cut \/ r.r # 0]

RECURSIVE BigOverPow(_, _, _, _)
RECURSIVE BigOverRest(_, _, _)
\* floor(x / d^k), and whether anything was cut off
BigOverPow(x, cut, d, k) ==
    IF k = 0 THEN [q |-> x, cut |-> cut]
    ELSE IF k <= PowChunk THEN CutQuotient(BigDivSmall(x, SmallPow(d, k)), cut)
    ELSE BigOverRest(BigOverPow(x, cut, d, k \div 2), d, k - (k \div 2))

\* the quotient r so far divided by d^k
BigOverRest(r, d, k) ==
    IF r.q = <<>> THEN r ELSE BigOverPow(r.q, r.cut, d, k)

BigLimb(x, i) == IF i >= 1 /\ i <= Len(x) THEN x[i] ELSE 0

\* number of significant bits of a non-zero x
BigBitLen(x) == (Len(x) - 1) * LimbBits + Log2Floor(x[Len(x)]) + 1

BigBit(x, k) == (BigLimb(x, (k \div LimbBits) + 1) \div (2 ^ (k % LimbBits))) % 2

\* TRUE iff the n lowest bits of x are all zero
BigLowZero(x, n) ==
    /\ \A i \in 1..(n \div LimbBits) : BigLimb(x, i) = 0
    /\ BigLimb(x, (n \div LimbBits) + 1) % (2 ^ (n % LimbBits)) = 0

BigShiftLeft(x, s) ==
    LET a == s \div LimbBits
        b == s % LimbBits
    IN  BigNorm([i \in 1..(Len(x) + a + 1) |->
                    ((BigLimb(x, i - a) % (2 ^ (LimbBits - b))) * (2 ^ b))
                    + (BigLimb(x, i - a - 1) \div (2 ^ (LimbBits - b)))])

BigShiftRight(x, s) ==
    LET a == s \div LimbBits
        b == s % LimbBits
    IN  BigNorm([i \in 1..(IF Len(x) > a THEN Len(x) - a ELSE 0) |->
                    (BigLimb(x, i + a) \div (2 ^ b))
                    + (BigLimb(x, i + a + 1) % (2 ^ b)) * (2 ^ (LimbBits - b))])

RECURSIVE BigToInt(_)
\* x as an integer, for x that fits one
BigToInt(x) == IF x = <<>> THEN 0 ELSE Head(x) + LimbBase * BigToInt(Tail(x))

RECURSIVE AddLimbs(_, _, _, _)
\* the limbs of x + y + c from limb i on
AddLimbs(x, y, i, c) ==
    IF i > Len(x) /\ i > Len(y) THEN <<c>>
    ELSE <<(BigLimb(x, i) + BigLimb(y, i) + c) % LimbBase>>
         \o AddLimbs(x, y, i + 1, (BigLimb(x, i) + BigLimb(y, i) + c) \div LimbBase)

\* x + y
BigAdd(x, y) == BigNorm(AddLimbs(x, y, 1, 0))

RECURSIVE LeqLimbs(_, _, _)
\* x <= y, looking at limbs i down to 1
LeqLimbs(x, y, i) ==
    IF i = 0 THEN TRUE
    ELSE IF BigLimb(x, i) # BigLimb(y, i) THEN BigLimb(x, i) < BigLimb(y, i)
    ELSE LeqLimbs(x, y, i - 1)

\* x <= y
BigLeq(x, y) == LeqLimbs(x, y, IF Len(x) > Len(y) THEN Len(x) ELSE Len(y))

(***************************************************************************)
(* Binary floating-point formats.  strtof and strtod read the same         *)
(* notation and differ in the format they round to: the number of          *)
(* significant bits, and the exponent range [2^minExp, 2^maxExp) of the    *)
(* normal values.  decRange and binRange are powers of ten and of two      *)
(* beyond which every non-zero value is out of the range whatever its      *)
(* digits are.                                                             *)
(***************************************************************************)
\* FLT_MIN_EXP - 1, FLT_MAX_EXP, DBL_MIN_EXP - 1, DBL_MAX_EXP
FloatMinExp == 0 - 126
FloatMaxExp == 128
DoubleMinExp == 0 - 1022
DoubleMaxExp == 1024

FloatDecimalRange == 50
FloatBinaryRange == 200
DoubleDecimalRange == 330
DoubleBinaryRange == 1200

FloatFormat == [bits |-> FloatBits, minExp |-> FloatMinExp, maxExp |-> FloatMaxExp,
                decRange |-> FloatDecimalRange, binRange |-> FloatBinaryRange]
DoubleFormat == [bits |-> DoubleBits, minExp |-> DoubleMinExp, maxExp |-> DoubleMaxExp,
                 decRange |-> DoubleDecimalRange, binRange |-> DoubleBinaryRange]

\* 2^k as a natural of any size
BigPow2(k) == BigShiftLeft(<<1>>, k)

\* the truncated value, rounded up if the bit cut off first (guard) is set
\* and the rest is not zero or the truncated value is odd
RoundUp(trunc, guard, rest) ==
    [mant |-> IF guard /\ (rest \/ BigBit(trunc, 0) = 1)
              THEN BigMulAdd(trunc, 1, 1) ELSE trunc,
     inexact |-> guard \/ rest]

\* N * 2^e2 (a little more if cut) in units of 2^q, rounded to nearest, ties
\* to even
RoundAt(N, e2, cut, q) ==
    IF q <= e2
    THEN [mant |-> BigShiftLeft(N, e2 - q), inexact |-> cut]
    ELSE RoundUp(BigShiftRight(N, q - e2), BigBit(N, q - e2 - 1) = 1,
                 cut \/ ~BigLowZero(N, q - e2 - 1))

\* the exponent of the last place of a value whose first bit is 2^E: the
\* format's bits below E, but not below the subnormal values' last place
LastPlace(E, fmt) == (IF E < fmt.minExp THEN fmt.minExp ELSE E) - (fmt.bits - 1)

\* the mantissa the library holds before it rounds: N * 2^e2 (a little more
\* if cut) in units of 2^qn, cut off; guard is the first bit cut off, rest
\* tells whether anything else was
Truncated(N, e2, cut, qn) ==
    IF qn <= e2
    THEN [mant |-> BigShiftLeft(N, e2 - qn), guard |-> FALSE, rest |-> cut]
    ELSE [mant |-> BigShiftRight(N, qn - e2),
          guard |-> BigBit(N, qn - e2 - 1) = 1,
          rest |-> cut \/ ~BigLowZero(N, qn - e2 - 1)]

\* TRUE iff the guard bit of the mantissa counts when the mantissa is cut
\* again, `shift` places higher, for a value below the normal range.  The
\* library (round_and_return of strtof and strtod) keeps of the limb cut off
\* first only the bits below the guard bit, so that the guard bit is lost;
\* for a decimal number cut two or more places higher it is not
GuardCounts(base, shift) == base # 16 /\ shift >= 2

\* the mantissa t, in units of 2^qn, rounded at 2^q: for q = qn, the last
\* place of an unbounded exponent range, by its guard bit and the rest; for
\* a higher q, the last place of the subnormal values, by the bits of the
\* mantissa below q and what was cut off before
RoundFrom(t, qn, q, base) ==
    IF q = qn THEN RoundUp(t.mant, t.guard, t.rest)
    ELSE RoundAt(t.mant, qn, t.rest \/ (t.guard /\ GuardCounts(base, q - qn)), q)

\* the result for a value with first bit 2^E, from its roundings rs at the
\* last place q and at the last place of an unbounded exponent range, and
\* the first mantissa `carry` that needs one bit more.  ERANGE (range is
\* FALSE) is set for a value below the normal range whose rounding at q cut
\* off something (unless the rounding in the unbounded range reaches the
\* normal range), and for a value too large
RoundResult(fmt, E, q, rs, carry) ==
    IF (E < fmt.minExp /\ ~(E = fmt.minExp - 1 /\ rs[E - (fmt.bits - 1)].mant = carry))
       /\ rs[q].inexact
    THEN [range |-> FALSE, kind |-> "finite", mant |-> rs[q].mant, exp |-> q]
    ELSE IF E >= fmt.minExp /\ E + (IF rs[q].mant = carry THEN 1 ELSE 0) >= fmt.maxExp
    THEN [range |-> FALSE, kind |-> "inf", mant |-> <<>>, exp |-> 0]
    ELSE [range |-> TRUE, kind |-> "finite", mant |-> rs[q].mant, exp |-> q]

\* the rounding of a value whose first bit is 2^E, written in the given base
RoundWithin(N, e2, cut, base, fmt, E) ==
    IF E < fmt.minExp - fmt.bits
    THEN [range |-> FALSE, kind |-> "finite", mant |-> <<>>, exp |-> 0]
    ELSE RoundResult(fmt, E, LastPlace(E, fmt),
                     [q \in {LastPlace(E, fmt), E - (fmt.bits - 1)} |->
                         RoundFrom(Truncated(N, e2, cut, E - (fmt.bits - 1)),
                                   E - (fmt.bits - 1), q, base)],
                     BigPow2(fmt.bits))

\* the value of the format that strtof and strtod give for N * 2^e2 (N # 0)
\* written in the given base (10 or 16): mant * 2^exp, or infinity.  It is
\* the nearest value of the format, ties to even, but for a value below the
\* normal range, which is rounded twice (see RoundFrom).  errno is ERANGE
\* (range is FALSE) when the value is too large for the format, and when it
\* is below the normal range and the second rounding is not exact
RoundToFormat(N, e2, cut, base, fmt) ==
    RoundWithin(N, e2, cut, base, fmt, BigBitLen(N) - 1 + e2)

(***************************************************************************)
(* float values.  A ChVector<float> coordinate is a record: kind           *)
(* ("finite", "inf" or "nan"), sign, and for a finite value mant * 2^exp   *)
(* with mant odd (mant = 0, exp = 0 for zero), so that equal values are    *)
(* equal records.                                                          *)
(***************************************************************************)
RECURSIVE FloatOf(_, _, _)
\* the float (-1)^neg * mant * 2^exp
FloatOf(neg, mant, exp) ==
    IF mant = 0 THEN [kind |-> "finite", neg |-> neg, mant |-> 0, exp |-> 0]
    ELSE IF mant % 2 = 0 THEN FloatOf(neg, mant \div 2, exp + 1)
    ELSE [kind |-> "finite", neg |-> neg, mant |-> mant, exp |-> exp]

FloatInf(neg) == [kind |-> "inf", neg |-> neg, mant |-> 0, exp |-> 0]
FloatNaN(neg) == [kind |-> "nan", neg |-> neg, mant |-> 0, exp |-> 0]

(***************************************************************************)
(* Text.  A text (a line, a token) is a sequence of one-character strings, *)
(* a file a sequence of lines.                                             *)
(***************************************************************************)
Digits == <<"0", "1", "2", "3", "4", "5", "6", "7", "8", "9">>
HexDigits == Digits \o <<"a", "b", "c", "d", "e", "f">>
UpperCase == <<"A", "B", "C", "D", "E", "F", "G", "H", "I", "J", "K", "L", "M",
               "N", "O", "P", "Q", "R", "S", "T", "U", "V", "W", "X", "Y", "Z">>
LowerCase == <<"a", "b", "c", "d", "e", "f", "g", "h", "i", "j", "k", "l", "m",
               "n", "o", "p", "q", "r", "s", "t", "u", "v", "w", "x", "y", "z">>

IndexIn(list, c) == CHOOSE k \in 1..Len(list) : list[k] = c
IsIn(list, c) == \E k \in 1..Len(list) : list[k] = c

ToLower(c) == IF IsIn(UpperCase, c) THEN LowerCase[IndexIn(UpperCase, c)] ELSE c

IsDigit(c) == IsIn(Digits, c)
IsHexDigit(c) == IsIn(HexDigits, ToLower(c))
\* the value of a decimal or hexadecimal digit
DigitValue(c) == IndexIn(HexDigits, ToLower(c)) - 1

\* isspace in the C locale: space, \t, \n, \v, \f, \r (the vertical tab,
\* which has no notation of its own, is written as the character itself)
IsSpace(c) == c \in {" ", "\t", "\n", "", "\f", "\r"}

\* a character of an n-char-sequence: letter, digit or underscore
IsWordChar(c) == IsIn(UpperCase, c) \/ IsIn(LowerCase, c) \/ IsDigit(c) \/ c = "_"

\* the k-th character (k from 1), or the empty string past the end
At(s, k) == IF k >= 1 /\ k <= Len(s) THEN s[k] ELSE ""

\* TRUE iff the text has the word w at position k, letter case ignored
HasWord(s, k, w) == \A j \in 1..Len(w) : ToLower(At(s, k + j - 1)) = w[j]

\* the first position from k on whose character does not satisfy Test
Span(s, k, Test(_)) ==
    CHOOSE j \in k..(Len(s) + 1) :
        /\ ~Test(At(s, j))
        /\ \A i \in k..(j - 1) : Test(At(s, i))

\* the position after the white space, the decimal digits, the
\* n-char-sequence that start at k
SkipSpace(s, k) == Span(s, k, IsSpace)
SpanDigits(s, k) == Span(s, k, IsDigit)
SpanWordChars(s, k) == Span(s, k, IsWordChar)

RECURSIVE SmallOfDigits(_, _, _, _)
\* the number written by the few digits at positions a..b-1
SmallOfDigits(s, a, b, base) ==
    IF a >= b THEN 0 ELSE SmallOfDigits(s, a, b - 1, base) * base + DigitValue(s[b - 1])

RECURSIVE BigOfDigits(_, _, _, _, _)
\* the natural acc extended by the digits at positions a..b-1, in the given
\* base
BigOfDigits(s, a, b, base, acc) ==
    IF a >= b THEN acc
    ELSE IF b - a <= PowChunk
    THEN BigMulAdd(acc, SmallPow(base, b - a), SmallOfDigits(s, a, b, base))
    ELSE LET mid == a + ((b - a) \div 2)
         IN  BigOfDigits(s, mid, b, base, BigOfDigits(s, a, mid, base, acc))

\* an exponent of this size or more, with either sign, gives the same result
\* as this size whatever the digits before it are: it outweighs every digit
\* of the text s, four bits each at most, and the range of the format
ExponentLimit(s, fmt) == 4 * Len(s) + fmt.binRange

\* n, or limit if n is larger
CapInt(n, limit) == IF n > limit THEN limit ELSE n

\* the natural x as an integer, or limit if x is larger
CapNat(x, limit) ==
    IF Len(x) > 2 \/ (Len(x) = 2 /\ x[2] > limit \div LimbBase) THEN limit
    ELSE CapInt(BigToInt(x), limit)

\* the decimal number at positions a..b-1, or limit if it is larger
NatOfDigits(s, a, b, limit) == CapNat(BigOfDigits(s, a, b, Len(Digits), <<>>), limit)

Clip(v, lo, hi) == IF v < lo THEN lo ELSE IF v > hi THEN hi ELSE v

\* the number N * 2^e2, or a little more if cut
Exact(N, e2, cut) == [N |-> N, e2 |-> e2, cut |-> cut]

\* a quotient Q in units of 2^e2
ExactQuotient(Q, e2) == Exact(Q.q, e2, Q.cut)

\* M * 10^e as N * 2^e2: a product for e >= 0, else the quotient of M * 2^s
\* by 10^-e with s large enough for the format's bits and two more
DecimalScaled(M, e, bits) ==
    IF e >= 0 THEN Exact(BigTimesPow(M, Len(Digits), e), 0, FALSE)
    ELSE ExactQuotient(BigOverPow(BigShiftLeft(M, 4 * (0 - e) + 2 * bits), FALSE,
                                  Len(Digits), 0 - e),
                       0 - (4 * (0 - e) + 2 * bits))

\* M * base^e, M a natural of nd digits of the base (10 or 16); an e beyond
\* the range of the format is clipped, the result is the same
Scaled(M, nd, e, base, fmt) ==
    IF base = 16
    THEN Exact(M, Clip(e, 0 - (4 * nd + fmt.binRange), fmt.binRange), FALSE)
    ELSE DecimalScaled(M, Clip(e, 0 - (nd + fmt.decRange), fmt.decRange), fmt.bits)

\* the value of the format for v, a number written in the given base
ToFormat(v, base, fmt) ==
    IF v.N = <<>> THEN [range |-> TRUE, kind |-> "finite", mant |-> <<>>, exp |-> 0]
    ELSE RoundToFormat(v.N, v.e2, v.cut, base, fmt)

\* the position after the digits of the base that start at k
SpanBase(s, k, base) == Span(s, k, LAMBDA c : IF base = 16 THEN IsHexDigit(c) ELSE IsDigit(c))

\* the position after the fraction, if a point is at i2
SpanFraction(s, i2, base) == IF At(s, i2) = "." THEN SpanBase(s, i2 + 1, base) ELSE i2

\* the number of digits in a fraction that starts at i2 and ends before f2
FractionDigits(i2, f2) == IF f2 > i2 THEN f2 - (i2 + 1) ELSE 0

\* the position of the first exponent digit, if an exponent starts at f2
ExponentStart(s, f2) == IF At(s, f2 + 1) \in {"+", "-"} THEN f2 + 2 ELSE f2 + 1

\* TRUE iff an exponent is at f2: the letter of the base, an optional sign
\* and at least one digit, the digits being at d1..d2-1
HasExponent(s, base, f2, d1, d2) ==
    ToLower(At(s, f2)) = (IF base = 16 THEN "p" ELSE "e") /\ d2 > d1

\* the exponent written at f2, 0 without one
Exponent(s, base, fmt, f2, d1, d2) ==
    IF HasExponent(s, base, f2, d1, d2)
    THEN (IF At(s, f2 + 1) = "-" THEN 0 - 1 ELSE 1)
         * NatOfDigits(s, d1, d2, ExponentLimit(s, fmt))
    ELSE 0

\* the number whose integer digits are at k..i2-1, whose fraction ends before
\* f2 and whose exponent digits, if it has an exponent, are at d1..d2-1
ScanParts(s, k, base, fmt, i2, f2, d1, d2) ==
    [digits |-> (i2 - k) + FractionDigits(i2, f2),
     end |-> IF HasExponent(s, base, f2, d1, d2) THEN d2 ELSE f2,
     result |-> ToFormat(Scaled(BigOfDigits(s, i2 + 1, f2, base,
                                            BigOfDigits(s, k, i2, base, <<>>)),
                                (i2 - k) + FractionDigits(i2, f2),
                                Exponent(s, base, fmt, f2, d1, d2)
                                    - (IF base = 16 THEN 4 ELSE 1) * FractionDigits(i2, f2),
                                base, fmt),
                         base, fmt)]

ScanExponent(s, k, base, fmt, i2, f2, d1) ==
    ScanParts(s, k, base, fmt, i2, f2, d1, SpanDigits(s, d1))

ScanFraction(s, k, base, fmt, i2, f2) ==
    ScanExponent(s, k, base, fmt, i2, f2, ExponentStart(s, f2))

ScanInteger(s, k, base, fmt, i2) ==
    ScanFraction(s, k, base, fmt, i2, SpanFraction(s, i2, base))

\* a number in the notation of the given base (10 or 16) whose first digit or
\* point is at position k: digits, an optional point and more digits, then an
\* optional exponent (e or p, an optional sign, decimal digits).  digits is
\* the number of digits found, end the position after the number
ScanNumber(s, k, base, fmt) == ScanInteger(s, k, base, fmt, SpanBase(s, k, base))

\* the result of a text that does not convert
Fails(e) == [ok |-> FALSE, err |-> e, kind |-> "finite", neg |-> FALSE,
             mant |-> <<>>, exp |-> 0, idx |-> 0]

\* the result of a number: ERANGE is reported as out_of_range
NumberResult(neg, num) ==
    IF num.result.range
    THEN [ok |-> TRUE, err |-> "", kind |-> num.result.kind, neg |-> neg,
          mant |-> num.result.mant, exp |-> num.result.exp, idx |-> num.end - 1]
    ELSE Fails("out_of_range")

\* TRUE iff 0x at p is followed by a hexadecimal digit, or a point and one
IsHexNumber(tok, p) ==
    /\ At(tok, p) = "0"
    /\ ToLower(At(tok, p + 1)) = "x"
    /\ \/ IsHexDigit(At(tok, p + 2))
       \/ (At(tok, p + 2) = "." /\ IsHexDigit(At(tok, p + 3)))

\* nan, with the n-char-sequence in parentheses if one follows and is closed
\* at position close
NanResult(tok, neg, p, close) ==
    [ok |-> TRUE, err |-> "", kind |-> "nan", neg |-> neg, mant |-> <<>>, exp |-> 0,
     idx |-> IF At(tok, p + 3) = "(" /\ At(tok, close) = ")" THEN close ELSE p + 2]

\* the conversion of what follows the sign, at position p
ConvertFrom(tok, fmt, neg, p) ==
    IF IsDigit(At(tok, p)) \/ (At(tok, p) = "." /\ IsDigit(At(tok, p + 1)))
    THEN NumberResult(neg, ScanNumber(tok, IF IsHexNumber(tok, p) THEN p + 2 ELSE p,
                                      IF IsHexNumber(tok, p) THEN 16 ELSE 10, fmt))
    ELSE IF HasWord(tok, p, <<"i", "n", "f">>)
    THEN [ok |-> TRUE, err |-> "", kind |-> "inf", neg |-> neg, mant |-> <<>>, exp |-> 0,
          idx |-> IF HasWord(tok, p + 3, <<"i", "n", "i", "t", "y">>) THEN p + 7 ELSE p + 2]
    ELSE IF HasWord(tok, p, <<"n", "a", "n">>)
    THEN NanResult(tok, neg, p, SpanWordChars(tok, p + 4))
    ELSE Fails("invalid_argument")

\* the conversion of what follows the white space, at position p0
ConvertSigned(tok, fmt, p0) ==
    ConvertFrom(tok, fmt, At(tok, p0) = "-",
                IF At(tok, p0) \in {"+", "-"} THEN p0 + 1 ELSE p0)

\* strtof and strtod with the test of errno that std::stof and std::stod
\* make: leading white space, an optional sign, then a decimal number, a
\* hexadecimal number after 0x, or inf, infinity or nan in any letter case;
\* what follows the number is ignored.  err is "invalid_argument" when
\* nothing converts and "out_of_range" when ERANGE is set (both are thrown);
\* idx is the number of characters used
Convert(tok, fmt) == ConvertSigned(tok, fmt, SkipSpace(tok, 1))

\* what std::stod reports of a conversion
DoubleResult(r) == [ok |-> r.ok, err |-> r.err, idx |-> r.idx]

\* std::stod(argv[4]): whether the text converts, the exception thrown when
\* it does not, and the number of characters used
stod(tok) == DoubleResult(Convert(tok, DoubleFormat))

\* what std::stof reports of a conversion, the value as a float
FloatResult(r) ==
    [ok |-> r.ok, err |-> r.err,
     value |-> IF r.kind = "inf" THEN FloatInf(r.neg)
               ELSE IF r.kind = "nan" THEN FloatNaN(r.neg)
               ELSE FloatOf(r.neg, BigToInt(r.mant), r.exp),
     idx |-> r.idx]

\* std::stof(tok): the float the text converts to
stof(tok) == FloatResult(Convert(tok, FloatFormat))

\* std::string::npos; npos + 1 wraps to 0
npos == 0 - 1

\* line.find(d): the offset of the first d, or npos
find(line, d) ==
    IF \E k \in 1..Len(line) : line[k] = d
    THEN (CHOOSE k \in 1..Len(line) :
              line[k] = d /\ \A j \in 1..(k - 1) : line[j] # d) - 1
    ELSE npos

\* line.substr(0, pos): the first pos characters, all of them for npos
substr(line, pos) ==
    IF pos = npos \/ pos > Len(line) THEN line ELSE SubSeq(line, 1, pos)

\* line.erase(0, n): the line without its first n characters
erase(line, n) ==
    IF n > Len(line) THEN <<>> ELSE SubSeq(line, n + 1, Len(line))

\* for (i = 0; i < 3; i++) { pos = line.find(d); tok = line.substr(0, pos);
\*   point[i] = stof(tok); line.erase(0, pos + 1); }: the conversions of the
\* n fields still to be read from a line
RECURSIVE ReadFields(_, _)
ReadFields(line, n) ==
    IF n = 0 THEN <<>>
    ELSE LET pos == find(line, ",")
             tok == substr(line, pos)
         IN  <<stof(tok)>> \o ReadFields(erase(line, pos + 1), n - 1)

\* the points of the lines read before the first one with a field that does
\* not convert
PointsOf(fields) ==
    LET bad == {k \in 1..Len(fields) : \E c \in 1..3 : ~fields[k][c].ok}
        last == IF bad = {} THEN Len(fields)
                ELSE (CHOOSE k \in bad : \A j \in bad : k <= j) - 1
    IN  [ok |-> bad = {},
         points |-> [k \in 1..last |-> [c \in 1..3 |-> fields[k][c].value]]]

\* the points of the data lines: every line gives one point; a field stof
\* cannot convert ends the reading (and the process) with an uncaught
\* exception
ReadPoints(data) == PointsOf([k \in 1..Len(data) |-> ReadFields(data[k], 3)])

\* the loop over the lines without the getline that skips the header
ReadCheckpointWithHeader(lines) == ReadPoints(lines)

\* std::getline(cp_file, line) skips the header, then
\* while (std::getline(cp_file, line)) reads a point from every further line
ReadCheckpoint(lines) == ReadPoints(IF lines = <<>> THEN <<>> ELSE Tail(lines))

(***************************************************************************)
(* The text of a checkpoint file as the terrain solver writes it.  A       *)
(* coordinate is printed with FileDigits significant decimal digits, the   *)
(* value rounded to nearest (ties to even), in the notation a stream uses  *)
(* for a floating-point number: digits and an optional fraction without    *)
(* trailing zeros, or d.ddddde+XX when the decimal exponent is below -4 or *)
(* not below FileDigits.                                                   *)
(***************************************************************************)
\* the decimal precision of the file format
FileDigits == 6

\* the decimal digits of n >= 0, most significant first
RECURSIVE NatText(_)
NatText(n) ==
    IF n < Len(Digits) THEN <<Digits[n + 1]>>
    ELSE NatText(n \div Len(Digits)) \o <<Digits[(n % Len(Digits)) + 1]>>

\* the digits d without the zeros at their end
RECURSIVE StripZeros(_)
StripZeros(d) ==
    IF d # <<>> /\ d[Len(d)] = "0" THEN StripZeros(SubSeq(d, 1, Len(d) - 1)) ELSE d

\* an integer below 2^32 as a natural of any size
IntToBig(n) == BigNorm(<<n % LimbBase, n \div LimbBase>>)

Pos(n) == IF n > 0 THEN n ELSE 0

\* floor(log2 |v|) of a float v that is not zero
FloatLog2(v) == BigBitLen(IntToBig(v.mant)) - 1 + v.exp

\* floor(log10 2^b): log10 2 = 0.30103 to five places, which is enough for
\* every exponent of a float
DecimalLog(b) == (b * 30103) \div 100000

\* a quotient cut s bits shorter
CutShift(r, s) == [q |-> BigShiftRight(r.q, s), cut |-> r.cut \/ ~BigLowZero(r.q, s)]

\* floor(2 * |v| * 10^k), and whether anything was cut off
HalfUnits(v, k) ==
    CutShift(BigOverPow(BigShiftLeft(BigTimesPow(IntToBig(v.mant), Len(Digits), Pos(k)),
                                     1 + Pos(v.exp)),
                        FALSE, Len(Digits), Pos(0 - k)),
             Pos(0 - v.exp))

\* |v| * 10^k rounded to the nearest integer, ties to even
UnitsRounded(h) == BigToInt(RoundUp(BigShiftRight(h.q, 1), BigBit(h.q, 0) = 1, h.cut).mant)

\* the decimal exponent X of v, 10^X <= |v| < 10^(X + 1), which is x0 or
\* x0 + 1
DecimalExponent(v, x0) ==
    IF BigToInt(HalfUnits(v, FileDigits - 1 - x0).q) >= 2 * SmallPow(Len(Digits), FileDigits)
    THEN x0 + 1 ELSE x0

\* digits and exponent when the rounding has carried into one digit more
Carried(D, X) ==
    IF D = SmallPow(Len(Digits), FileDigits)
    THEN [digits |-> NatText(D \div Len(Digits)), exp |-> X + 1]
    ELSE [digits |-> NatText(D), exp |-> X]

\* the FileDigits significant digits of v, rounded, and their decimal exponent
Significant(v, X) == Carried(UnitsRounded(HalfUnits(v, FileDigits - 1 - X)), X)

\* the exponent of the scientific notation: a sign and two digits at least
ExponentText(X) ==
    <<"e", IF X < 0 THEN "-" ELSE "+">>
    \o (IF X > 0 - Len(Digits) /\ X < Len(Digits) THEN <<"0">> ELSE <<>>)
    \o NatText(IF X < 0 THEN 0 - X ELSE X)

\* a point and the digits f, if there are any
PointText(f) == IF f = <<>> THEN <<>> ELSE <<".">> \o f

\* the digits d with the decimal exponent X in the stream's notation
DigitsText(d, X) ==
    IF X < 0 - 4 \/ X >= FileDigits
    THEN <<d[1]>> \o PointText(StripZeros(Tail(d))) \o ExponentText(X)
    ELSE IF X >= 0
    THEN SubSeq(d, 1, X + 1) \o PointText(StripZeros(SubSeq(d, X + 2, Len(d))))
    ELSE <<"0", ".">> \o [i \in 1..(0 - X - 1) |-> "0"] \o StripZeros(d)

SignificantText(s) == DigitsText(s.digits, s.exp)

\* a coordinate as the stream operator << prints it
FloatText(v) ==
    (IF v.neg THEN <<"-">> ELSE <<>>)
    \o (IF v.kind = "inf" THEN <<"i", "n", "f">>
        ELSE IF v.kind = "nan" THEN <<"n", "a", "n">>
        ELSE IF v.mant = 0 THEN <<"0">>
        ELSE SignificantText(Significant(v, DecimalExponent(v, DecimalLog(FloatLog2(v))))))

\* one line x,y,z of a particle
PointLine(point) ==
    FloatText(point[1]) \o <<",">> \o FloatText(point[2]) \o <<",">> \o FloatText(point[3])

\* gpu_sys.WriteFile in CSV mode: a header line, then one line per particle in
\* the order the solver holds them
WriteFile(points) ==
    << <<"x", ",", "y", ",", "z">> >> \o [k \in 1..Len(points) |-> PointLine(points[k])]

(***************************************************************************)
(* Program constants and the inputs of a run.                              *)
(***************************************************************************)
\* enum RUN_MODE { SETTLING = 0, TESTING = 1 }
SETTLING == 0
TESTING == 1

\* constexpr double time_settling = 1.0, time_running = 10.0
time_settling == 1
time_running == 10

\* lengths in units of 0.1 cm: wheel_rad = 0.13 m, wheel_offset_z = -0.164 m
wheel_rad == 130
wheel_offset_z == 0 - 164

\* the chassis is the first body of rover_sys, the wheels follow in the order
\* of the addWheelBody calls
chassis_body == 0
NumWheels == 6

\* argc values tried: the program wants exactly 5 (its name and four arguments)
ArgCounts == {4, 5, 6}
RunModes == {SETTLING, TESTING}

\* atoi(argv[2]) values tried: the two run modes and a number that is neither;
\* the cast keeps such a number as it is
ModeArgs == {0, 1, 2}

\* run_mode before main assigns it
NoMode == 0 - 1

\* exit_code while the process runs, when the division trap kills it (SIGFPE)
\* and when an uncaught exception ends it through abort (SIGABRT)
Running == 0 - 1
Trapped == 128 + 8
Aborted == 128 + 6

\* argv[4] values tried: a number, a text that is no number, a number too
\* large for a double
GravArgs == {<<"2", "0">>, <<"a", "b", "c">>, <<"1", "e", "9", "9", "9">>}

\* params.step_size as the decimal fraction <<n, d>> written in the JSON file:
\* 0.005, 0.004 (whose float is above the decimal, so that out_fps * h is
\* above 0.2), 0.0125, 0.02 and 0.5
StepSizes == {<<1, 200>>, <<1, 250>>, <<1, 80>>, <<1, 50>>, <<1, 2>>}

\* params.time_end as written in the JSON file (whole seconds)
ConfigTimeEnds == {2}

\* params.box_Z in units of 0.1 cm
BoxZ == 500

\* the terrain solver's contact report of one step is drawn from MaxSeed + 1
\* possibilities
MaxSeed == 1

\* contact load the terrain reports on soup i (0-based) under report r
Load(r, i) == [force |-> r * (i + 1), torque |-> 0 - r * (NumWheels + i + 1)]

NoLoad == [force |-> 0, torque |-> 0]

Bodies == 0..NumWheels

(***************************************************************************)
(* Particle positions.  A point is a triple of float values (in cm).       *)
(***************************************************************************)
\* the coordinates tried: -MaxCoord, 0, MaxCoord + 1/2 and -1/4, which a
\* decimal of few digits writes exactly; the float next to 1/3, which has
\* more digits than a file holds; and a value below the normal values of a
\* float, 2^-140
MaxCoord == 12
CoordSeq == <<FloatOf(TRUE, MaxCoord, 0), FloatOf(FALSE, 0, 0),
              FloatOf(FALSE, 2 * MaxCoord + 1, 0 - 1), FloatOf(TRUE, 1, 0 - 2),
              FloatOf(FALSE, ((2 ^ (FloatBits + 1)) + 1) \div 3, 0 - (FloatBits + 1)),
              FloatOf(FALSE, 1, FloatMinExp - 14)>>

\* the points tried: three coordinates in a row, from every second place of
\* CoordSeq
Points == {[c \in 1..3 |-> CoordSeq[((k + c - 2) % Len(CoordSeq)) + 1]] :
              k \in {j \in 1..Len(CoordSeq) : j % 2 = 1}}

\* the longest list of particles tried
MaxPoints == 2
PointLists == UNION {[1..n -> Points] : n \in 1..MaxPoints}

\* a float height in units of 0.1 cm, rounded down and kept inside the box
RangeBits == 28
Tenths(v) ==
    LET top(n) == IF n > BoxZ THEN BoxZ ELSE n
    IN  IF v.kind = "nan" \/ v.neg THEN 0
        ELSE IF v.kind = "inf" THEN BoxZ
        ELSE IF v.exp >= 0
        THEN (IF v.exp > RangeBits \/ v.mant > BoxZ THEN BoxZ
              ELSE top(v.mant * Len(Digits) * (2 ^ v.exp)))
        ELSE (IF 0 - v.exp > RangeBits THEN 0
              ELSE top((v.mant * Len(Digits)) \div (2 ^ (0 - v.exp))))

\* the largest z of the particles given to the terrain model, 0 without any
MaxParticleZ(points) ==
    IF points = <<>> THEN 0
    ELSE CHOOSE z \in {Tenths(points[k][3]) : k \in 1..Len(points)} :
             \A k \in 1..Len(points) : Tenths(points[k][3]) <= z

\* utils::PDLayerSampler_BOX(center, hdims, ...): points inside the box
\* center +- hdims, which reaches from 2 cm to box_Z / 2 - 2 cm in z; one
\* point at the bottom and one at the top of it
PDLayerSampler_BOX ==
    << <<FloatOf(FALSE, 0, 0), FloatOf(FALSE, 0, 0), FloatOf(FALSE, 2, 0)>>,
       <<FloatOf(FALSE, 0, 0), FloatOf(FALSE, 0, 0),
         FloatOf(FALSE, ((BoxZ \div 2) - 20) \div Len(Digits), 0)>> >>

\* a well-formed checkpoint file of two points
WellFormed ==
    WriteFile(<< <<CoordSeq[1], CoordSeq[2], CoordSeq[3]>>,
                 <<CoordSeq[4], CoordSeq[1], CoordSeq[2]>> >>)

\* the checkpoint files tried: the well-formed file, a file whose data line
\* holds no number, and the well-formed file followed by a blank line
CheckpointTexts ==
    {WellFormed,
     <<WellFormed[1], <<"a", ",", "b", ",", "c">> >>,
     WellFormed \o << <<>> >>}

(***************************************************************************)
(* The runs tried.  Every value of every input is tried in every mode; the *)
(* combinations are thinned where a run is long and an input plays no part *)
(* in what the run adds: a TESTING loop is ten times as long as a SETTLING *)
(* one.                                                                    *)
(***************************************************************************)
\* the step sizes tried in a run: all, but for the smallest in TESTING, where
\* it differs from the next one by the number of steps only
StepsTried(mode) == IF mode = TESTING THEN StepSizes \ {<<1, 250>>} ELSE StepSizes

\* whether <output_dir> exists in the working directory at the start of a
\* run; no run creates it there.  Both cases are tried in every mode and
\* with every step size, but for the longest run of all (2000 steps), which
\* is tried with the directory there
OutDirsTried(mode, step) ==
    IF mode = TESTING /\ step = <<1, 200>> THEN {TRUE} ELSE BOOLEAN

\* whether the checkpoint file exists at the start of a run: both cases in a
\* run that reads it, and with one step size in a run that does not
CheckpointsTried(mode, step) ==
    IF mode = TESTING \/ step = <<1, 50>> THEN {"missing", "present"} ELSE {"missing"}

\* the contents tried for the checkpoint file at the start of a run: the
\* well-formed text in a run that does not read the file, the first two
\* texts in a run that reads it, and the third with one step size (reading
\* the file does not depend on the step)
FilesTried(mode, file, step) ==
    IF file = "missing" THEN {<<>>}
    ELSE IF mode # TESTING THEN {WellFormed}
    ELSE IF step = <<1, 50>> THEN CheckpointTexts
    ELSE CheckpointTexts \ {WellFormed \o << <<>> >>}

VARIABLES
    argc, parse_ok, argv_mode, grav_arg, step_size,  \* command line and configuration
    cwd_out_dir,                                     \* params.output_dir exists in the working directory
    stdout_tty,                                      \* the standard output is a terminal
    cp_file, cp_lines, particles,                    \* the checkpoint file and the particles it was written from
    pc, exit_code,                                   \* position, exit status
    stdout, buffered,                                \* start-up lines delivered, and written but not yet delivered
    run_mode, iteration_step, time_end,              \* main's locals and params
    body_points, positions_set, gpu_made, gpu_init,  \* gpu_sys (terrain model)
    meshes, mesh_collision, output_mode, gpu_steps,
    soup_pose, soup_load, max_z,
    rover_made, rover_steps, body_fixed, pose, acc,  \* rover_sys (rigid-body model)
    mesh_filenames, wheel_bodies,                    \* globals filled by addWheelBody
    chassis_fixed, terrain_height_offset,
    out_dir, out_steps, currframe, curr_step, t,
    outstream, mesh_files, meshfile, snapshots,      \* frames built and files written
    checkpoint,
    log, releases, release_step, below,              \* history of the run
    collision_sets,
    collected                                        \* what the collection loop last took from each soup

inputs == <<argc, parse_ok, argv_mode, grav_arg, step_size, cwd_out_dir, stdout_tty>>
files == <<cp_file, cp_lines, particles>>
gpu == <<body_points, positions_set, gpu_made, gpu_init, meshes, mesh_collision,
         output_mode, gpu_steps, soup_pose, soup_load, max_z>>
rover == <<rover_made, rover_steps, body_fixed, pose, acc>>
globals == <<mesh_filenames, wheel_bodies>>
release == <<chassis_fixed, terrain_height_offset, releases, release_step, below>>
loopv == <<out_steps, currframe, curr_step, t>>
outfiles == <<outstream, mesh_files, meshfile, snapshots, checkpoint>>
proc == <<exit_code, stdout, buffered>>
cfg == <<run_mode, iteration_step, time_end>>
hist == <<log, collision_sets, collected>>

vars == <<inputs, files, pc, proc, cfg, gpu, rover, globals, release, out_dir,
          loopv, outfiles, hist>>

\* the state of a process before main has run: everything but the command
\* line, the configuration and the file system
Fresh ==
    /\ pc = "start"
    /\ exit_code = Running
    /\ stdout = <<>>
    /\ buffered = <<>>
    /\ run_mode = NoMode
    /\ iteration_step = FxZero
    /\ body_points = <<>>
    /\ positions_set = FALSE
    /\ gpu_made = FALSE
    /\ gpu_init = FALSE
    /\ meshes = <<>>
    /\ mesh_collision = TRUE
    /\ output_mode = "config"
    /\ gpu_steps = 0
    /\ soup_pose = <<>>
    /\ soup_load = <<>>
    /\ max_z = 0
    /\ rover_made = FALSE
    /\ rover_steps = 0
    /\ body_fixed = <<>>
    /\ pose = <<>>
    /\ acc = <<>>
    /\ mesh_filenames = <<>>
    /\ wheel_bodies = <<>>
    /\ chassis_fixed = FALSE
    /\ terrain_height_offset = 0
    /\ out_dir = "none"
    /\ out_steps = 0
    /\ currframe = 0
    /\ curr_step = 0
    /\ t = FxZero
    /\ outstream = <<>>
    /\ mesh_files = {}
    /\ meshfile = <<>>
    /\ snapshots = 0
    /\ checkpoint = <<>>
    /\ log = <<>>
    /\ releases = 0
    /\ release_step = 0 - 1
    /\ below = 0
    /\ collision_sets = 0
    /\ collected = <<>>

\* The standard output is a pipe or a file but for the step size whose run
\* the division trap can end before anything flushes the buffer: there, in
\* the modes with the short loops, a terminal is tried as well
Init ==
    /\ argc \in ArgCounts
    /\ parse_ok \in BOOLEAN
    /\ argv_mode \in ModeArgs
    /\ grav_arg \in GravArgs
    /\ step_size \in StepsTried(argv_mode)
    /\ cwd_out_dir \in OutDirsTried(argv_mode, step_size)
    /\ stdout_tty \in (IF argv_mode # TESTING /\ step_size = <<1, 2>> THEN BOOLEAN ELSE {FALSE})
    /\ cp_file \in CheckpointsTried(argv_mode, step_size)
    /\ cp_lines \in FilesTried(argv_mode, cp_file, step_size)
    /\ particles = <<>>
    /\ time_end \in {FxInt(c) : c \in ConfigTimeEnds}
    /\ Fresh

(***************************************************************************)
(* Start-up: main, lines 227-398.                                          *)
(***************************************************************************)
(***************************************************************************)
(* Standard output.  printf and std::cout write to the one buffer of the   *)
(* C library (the streams are synchronized).  A terminal is line-buffered: *)
(* a line is delivered when it is written.  Otherwise the lines stay in    *)
(* the buffer until std::endl, exit or the return from main flushes it; a  *)
(* process killed by a signal leaves what the buffer holds undelivered.    *)
(* stdout and buffered keep which lines were written before the loop, not  *)
(* the numbers in them.                                                    *)
(***************************************************************************)
\* printf: the lines delivered (out) and the lines in the buffer (buf) after
\* lines, each ending with a newline, were written
printf(tty, out, buf, lines) ==
    IF tty THEN [out |-> out \o buf \o lines, buf |-> <<>>]
    ELSE [out |-> out, buf |-> buf \o lines]

\* ShowUsage: the line ends with std::endl
ShowUsage(out) == Append(out, "usage")

\* the start-up test if only the argument count were looked at
ArgsRejectedByCount(count, parsed) == count # 5

\* argc != 5 || ParseJSON(gpu::GetDataFile(argv[1]), params) == false
ArgsRejected(count, parsed) == count # 5 \/ ~parsed

\* if (argc != 5 || ParseJSON(...) == false) { ShowUsage(argv[0]); return 1; }
CheckArgs ==
    /\ pc = "start"
    /\ IF ArgsRejected(argc, parse_ok)
       THEN /\ stdout' = ShowUsage(stdout \o buffered)
            /\ buffered' = <<>>
            /\ exit_code' = 1
            /\ pc' = "exited"
       ELSE /\ pc' = "read_args"
            /\ UNCHANGED proc
    /\ UNCHANGED <<inputs, files, cfg, gpu, rover, globals, release, out_dir,
                   loopv, outfiles, hist>>

\* run_mode = (RUN_MODE)atoi(argv[2]); stod(argv[4]), whose exception nothing
\* catches; the gravity line is printed, with std::endl; iteration_step =
\* params.step_size
ReadArgs ==
    /\ pc = "read_args"
    /\ run_mode' = argv_mode
    /\ IF stod(grav_arg).ok
       THEN /\ stdout' = Append(stdout \o buffered, "Gravity")
            /\ buffered' = <<>>
            /\ iteration_step' = StepSizeField(step_size[1], step_size[2], FloatBits)
            /\ pc' = "make_gpu"
            /\ UNCHANGED exit_code
       ELSE /\ exit_code' = Aborted
            /\ pc' = "exited"
            /\ UNCHANGED <<iteration_step, stdout, buffered>>
    /\ UNCHANGED <<inputs, files, time_end, gpu, rover, globals, release,
                   out_dir, loopv, outfiles, hist>>

\* ChSystemGpuMesh gpu_sys(...)
MakeGpuSys ==
    /\ pc = "make_gpu"
    /\ gpu_made' = TRUE
    /\ pc' = "points"
    /\ UNCHANGED <<inputs, files, proc, cfg, body_points, positions_set, gpu_init,
                   meshes, mesh_collision, output_mode, gpu_steps, soup_pose,
                   soup_load, max_z, rover, globals, release, out_dir, loopv,
                   outfiles, hist>>

\* what becomes of a file that opens: its points, or the end of the process
\* when stof throws, which nothing catches
Loaded(r) ==
    IF r.ok THEN [exit |-> Running, out |-> <<>>, points |-> r.points]
    ELSE [exit |-> Aborted, out |-> <<>>, points |-> <<>>]

\* loadCheckpointFile without the is_open test: nothing can be read from a
\* file that is not open, so the list of points stays empty
loadCheckpointFileUnchecked(file, lines) ==
    Loaded(ReadCheckpoint(IF file = "missing" THEN <<>> ELSE lines))

\* loadCheckpointFile: exit(1) with a message when the file cannot be opened
loadCheckpointFile(file, lines) ==
    IF file = "missing"
    THEN [exit |-> 1, out |-> <<"ERROR reading checkpoint file">>, points |-> <<>>]
    ELSE Loaded(ReadCheckpoint(lines))

\* body_points = sampler.SampleBox(...) if SETTLING, else
\* body_points = loadCheckpointFile(checkpoint_file_base + ".csv") if
\* TESTING; in any other mode the vector stays as it was declared
InitialPoints(mode, declared) ==
    IF mode = SETTLING
    THEN [exit |-> Running, out |-> <<>>, points |-> PDLayerSampler_BOX]
    ELSE IF mode = TESTING THEN loadCheckpointFile(cp_file, cp_lines)
    ELSE [exit |-> Running, out |-> <<>>, points |-> declared]

\* gpu_sys.SetParticlePositions(body_points) and the solver parameters, if
\* the process is still there; the message of loadCheckpointFile ends with
\* std::endl and exit flushes, the exception of stof does not
SetParticlePositions(r) ==
    IF r.exit = Running
    THEN /\ body_points' = r.points
         /\ positions_set' = TRUE
         /\ max_z' = MaxParticleZ(r.points)
         /\ pc' = "make_rover"
         /\ UNCHANGED proc
    ELSE /\ stdout' = (IF r.exit = Aborted THEN stdout ELSE stdout \o buffered \o r.out)
         /\ buffered' = (IF r.exit = Aborted THEN buffered ELSE <<>>)
         /\ exit_code' = r.exit
         /\ pc' = "exited"
         /\ UNCHANGED <<body_points, positions_set, max_z>>

\* body_points from the sampler (SETTLING) or from the checkpoint (TESTING),
\* then SetParticlePositions
LoadPoints ==
    /\ pc = "points"
    /\ SetParticlePositions(InitialPoints(run_mode, body_points))
    /\ UNCHANGED <<inputs, files, cfg, gpu_made, gpu_init, meshes, mesh_collision,
                   output_mode, gpu_steps, soup_pose, soup_load, rover, globals,
                   release, out_dir, loopv, outfiles, hist>>

\* double height_offset_chassis_to_bottom = abs(wheel_offset_z) + 2 * wheel_rad
height_offset_chassis_to_bottom == (0 - wheel_offset_z) + 2 * wheel_rad

\* ChSystemNSC rover_sys; the chassis body is created, added and fixed
MakeRover ==
    /\ pc = "make_rover"
    /\ rover_made' = TRUE
    /\ terrain_height_offset' = BoxZ + height_offset_chassis_to_bottom
    /\ chassis_fixed' = TRUE
    /\ body_fixed' = (chassis_body :> TRUE)
    /\ pose' = (chassis_body :> 0)
    /\ acc' = (chassis_body :> NoLoad)
    /\ pc' = "add_wheels"
    /\ UNCHANGED <<inputs, files, proc, cfg, gpu, rover_steps, globals, releases,
                   release_step, below, out_dir, loopv, outfiles, hist>>

\* addWheelBody: a new free body in rover_sys, whose inertia tensor is
\* written with printf, and one more entry in each of the mesh lists and in wheel_bodies
addWheelBody ==
    /\ pc = "add_wheels"
    /\ Len(wheel_bodies) < NumWheels
    /\ LET wheel_body == Len(wheel_bodies) + 1
       IN  /\ body_fixed' = (wheel_body :> FALSE) @@ body_fixed
           /\ pose' = (wheel_body :> 0) @@ pose
           /\ acc' = (wheel_body :> NoLoad) @@ acc
           /\ mesh_filenames' = Append(mesh_filenames, "wheel_scaled.obj")
           /\ wheel_bodies' = Append(wheel_bodies, wheel_body)
    /\ stdout' = printf(stdout_tty, stdout, buffered, <<"Inertia tensor">>).out
    /\ buffered' = printf(stdout_tty, stdout, buffered, <<"Inertia tensor">>).buf
    /\ pc' = IF Len(wheel_bodies') = NumWheels THEN "load_meshes" ELSE "add_wheels"
    /\ UNCHANGED <<inputs, files, exit_code, cfg, gpu, rover_made, rover_steps, release,
                   out_dir, loopv, outfiles, hist>>

\* gpu_sys.LoadMeshes(mesh_filenames, ...): one soup per listed mesh
LoadMeshes ==
    /\ pc = "load_meshes"
    /\ meshes' = mesh_filenames
    /\ soup_pose' = [k \in 1..Len(mesh_filenames) |-> <<>>]
    /\ soup_load' = [k \in 1..Len(mesh_filenames) |-> NoLoad]
    /\ pc' = "mkdir"
    /\ UNCHANGED <<inputs, files, proc, cfg, body_points, positions_set, gpu_made,
                   gpu_init, mesh_collision, output_mode, gpu_steps, max_z, rover,
                   globals, release, out_dir, loopv, outfiles, hist>>

\* filesystem::create_directory for "../" and "../" + params.output_dir: the
\* directory made lies beside the working directory, not inside it
CreateOutDir ==
    /\ pc = "mkdir"
    /\ out_dir' = "created"
    /\ pc' = "initialize"
    /\ UNCHANGED <<inputs, files, proc, cfg, gpu, rover, globals, release, loopv,
                   outfiles, hist>>

\* the line with the number of soups is printed, with std::endl;
\* gpu_sys.Initialize()
InitializeGpu ==
    /\ pc = "initialize"
    /\ stdout' = Append(stdout \o buffered, "soup families")
    /\ buffered' = <<>>
    /\ gpu_init' = TRUE
    /\ pc' = "cadence"
    /\ UNCHANGED <<inputs, files, exit_code, cfg, body_points, positions_set, gpu_made,
                   meshes, mesh_collision, output_mode, gpu_steps, soup_pose,
                   soup_load, max_z, rover, globals, release, out_dir, loopv,
                   outfiles, hist>>

\* the frame rate is printed, with std::endl; out_steps, currframe = 0, curr_step = 0
ComputeCadence ==
    /\ pc = "cadence"
    /\ stdout' = Append(stdout \o buffered, "Rendering at 50FPS")
    /\ buffered' = <<>>
    /\ out_steps' = OutSteps(iteration_step)
    /\ currframe' = 0
    /\ curr_step' = 0
    /\ pc' = "mode"
    /\ UNCHANGED <<inputs, files, exit_code, cfg, gpu, rover, globals, release, out_dir,
                   t, outfiles, hist>>

\* the mode set-up with mesh collision enabled in both modes
ModeSetupCollide(mode, collision, configured) ==
    IF mode = SETTLING
    THEN [calls |-> 1, collision |-> TRUE, time_end |-> FxInt(time_settling)]
    ELSE IF mode = TESTING
    THEN [calls |-> 1, collision |-> TRUE, time_end |-> FxInt(time_running)]
    ELSE [calls |-> 0, collision |-> collision, time_end |-> configured]

\* what the run mode decides: EnableMeshCollision(false) and time_settling in
\* SETTLING, EnableMeshCollision(true) and time_running in TESTING; in any
\* other mode no call is made and params.time_end stays as configured
ModeSetup(mode, collision, configured) ==
    IF mode = SETTLING
    THEN [calls |-> 1, collision |-> FALSE, time_end |-> FxInt(time_settling)]
    ELSE IF mode = TESTING
    THEN [calls |-> 1, collision |-> TRUE, time_end |-> FxInt(time_running)]
    ELSE [calls |-> 0, collision |-> collision, time_end |-> configured]

\* EnableMeshCollision and params.time_end by run mode; the masses and the
\* weight are written with printf; float t = 0
ConfigureMode ==
    /\ pc = "mode"
    /\ stdout' = printf(stdout_tty, stdout, buffered,
                        <<"Chassis mass", "Total Chassis Mars weight">>).out
    /\ buffered' = printf(stdout_tty, stdout, buffered,
                          <<"Chassis mass", "Total Chassis Mars weight">>).buf
    /\ mesh_collision' = ModeSetup(run_mode, mesh_collision, time_end).collision
    /\ collision_sets' = collision_sets + ModeSetup(run_mode, mesh_collision, time_end).calls
    /\ time_end' = ModeSetup(run_mode, mesh_collision, time_end).time_end
    /\ t' = FxZero
    /\ pc' = "loop_test"
    /\ UNCHANGED <<inputs, files, exit_code, run_mode, iteration_step, body_points,
                   positions_set, gpu_made, gpu_init, meshes, output_mode, gpu_steps,
                   soup_pose, soup_load, max_z, rover, globals, release, out_dir,
                   out_steps, currframe, curr_step, outfiles, log, collected>>

(***************************************************************************)
(* The co-simulation loop: main, lines 406-463.                            *)
(***************************************************************************)
\* while (t < params.time_end)
LoopTest ==
    /\ pc = "loop_test"
    /\ pc' = IF FxLess(t, time_end) THEN "release" ELSE "phase_end"
    /\ UNCHANGED <<inputs, files, proc, cfg, gpu, rover, globals, release, out_dir,
                   loopv, outfiles, hist>>

\* the order of the stages if the rigid-body model advanced before the terrain
NextStageRoverFirst(stage) ==
    CASE stage = "release" -> "push"
      [] stage = "push" -> "rover_advance"
      [] stage = "rover_advance" -> "gpu_advance"
      [] stage = "gpu_advance" -> "collect"
      [] stage = "collect" -> "frame"
      [] stage = "frame" -> "loop_inc"

\* the order of the stages if the loads were collected before the rigid-body
\* model advanced
NextStageCollectFirst(stage) ==
    CASE stage = "release" -> "push"
      [] stage = "push" -> "gpu_advance"
      [] stage = "gpu_advance" -> "collect"
      [] stage = "collect" -> "rover_advance"
      [] stage = "rover_advance" -> "frame"
      [] stage = "frame" -> "loop_inc"

\* the order of the statements in the loop body
NextStage(stage) ==
    CASE stage = "release" -> "push"
      [] stage = "push" -> "gpu_advance"
      [] stage = "gpu_advance" -> "rover_advance"
      [] stage = "rover_advance" -> "collect"
      [] stage = "collect" -> "frame"
      [] stage = "frame" -> "loop_inc"

\* gpu_sys.GetMaxParticleZ()
GetMaxParticleZ == max_z

\* the release test without the one-shot flag
ReleaseDueNoFlag(fixed, time) == FxLeq(FxHalf, time)

\* the condition chassis_fixed && t >= 0.5
ReleaseDue(fixed, time) == fixed /\ FxLeq(FxHalf, time)

\* if (chassis_fixed && t >= 0.5) { release the chassis, recompute the offset }
ReleaseCheck ==
    /\ pc = "release"
    /\ IF ReleaseDue(chassis_fixed, t)
       THEN /\ chassis_fixed' = FALSE
            /\ body_fixed' = [body_fixed EXCEPT ![chassis_body] = FALSE]
            /\ terrain_height_offset' = GetMaxParticleZ + height_offset_chassis_to_bottom
            /\ releases' = releases + 1
            /\ release_step' = curr_step
       ELSE UNCHANGED <<chassis_fixed, body_fixed, terrain_height_offset, releases,
                        release_step>>
    /\ below' = IF FxLess(t, FxHalf) THEN below + 1 ELSE below
    /\ pc' = NextStage("release")
    /\ UNCHANGED <<inputs, files, proc, cfg, gpu, rover_made, rover_steps, pose, acc,
                   globals, out_dir, loopv, outfiles, hist>>

\* gpu_sys.ApplyMeshMotion(i, pos, rot, pos_dt, wvel) of wheel_bodies.at(i)
ApplyMeshMotion(poses, k, body) == [poses EXCEPT ![k + 1] = <<body, pose[body]>>]

RECURSIVE PushAll(_, _)
\* the soup poses after the passes i = k, k + 1, ... of the push loop
PushAll(poses, k) ==
    IF k < Len(wheel_bodies)
    THEN PushAll(ApplyMeshMotion(poses, k, wheel_bodies[k + 1]), k + 1)
    ELSE poses

\* for (i = 0; i < wheel_bodies.size(); i++) ApplyMeshMotion(i, ...)
PushPose ==
    /\ pc = "push"
    /\ soup_pose' = PushAll(soup_pose, 0)
    /\ log' = log \o [k \in 1..Len(wheel_bodies) |-> <<"push", k - 1, wheel_bodies[k]>>]
    /\ pc' = NextStage("push")
    /\ UNCHANGED <<inputs, files, proc, cfg, body_points, positions_set, gpu_made,
                   gpu_init, meshes, mesh_collision, output_mode, gpu_steps, soup_load,
                   max_z, rover, globals, release, out_dir, loopv, outfiles,
                   collision_sets, collected>>

\* gpu_sys.AdvanceSimulation(iteration_step): the terrain moves one step and
\* holds a new contact load for every soup
AdvanceGpu ==
    /\ pc = "gpu_advance"
    /\ \E r \in 0..MaxSeed :
          soup_load' = [k \in 1..Len(meshes) |-> Load(r, k - 1)]
    /\ gpu_steps' = gpu_steps + 1
    /\ max_z' = IF max_z > 0 THEN max_z - 1 ELSE 0
    /\ log' = Append(log, <<"gpu", mesh_collision>>)
    /\ pc' = NextStage("gpu_advance")
    /\ UNCHANGED <<inputs, files, proc, cfg, body_points, positions_set, gpu_made,
                   gpu_init, meshes, mesh_collision, output_mode, soup_pose, rover,
                   globals, release, out_dir, loopv, outfiles, collision_sets,
                   collected>>

\* rover_sys.DoStepDynamics(iteration_step): every body that is not fixed is
\* integrated under the loads in its accumulators (the log keeps whether the
\* chassis was fixed and which loads were present)
DoStepDynamics(poses) == [b \in DOMAIN poses |-> IF body_fixed[b] THEN poses[b] ELSE poses[b] + 1]

AdvanceRover ==
    /\ pc = "rover_advance"
    /\ pose' = DoStepDynamics(pose)
    /\ rover_steps' = rover_steps + 1
    /\ log' = Append(log, <<"rover", body_fixed[chassis_body], acc>>)
    /\ pc' = NextStage("rover_advance")
    /\ UNCHANGED <<inputs, files, proc, cfg, gpu, rover_made, body_fixed, acc, globals,
                   release, out_dir, loopv, outfiles, collision_sets, collected>>

\* the collection if the soups were numbered from the other end
CollectMeshContactForcesReversed(k) == soup_load[Len(soup_load) - k]

\* gpu_sys.CollectMeshContactForces(i, wheel_force, wheel_torque)
CollectMeshContactForces(k) == soup_load[k + 1]

\* curr_body->Empty_forces_accumulators()
Empty_forces_accumulators(a) == NoLoad

\* curr_body->Accumulate_force(wheel_force, curr_body->GetPos(), false): the
\* force acts at the body's own position
Accumulate_force(a, force) == [a EXCEPT !.force = @ + force]

\* curr_body->Accumulate_torque(wheel_torque, false)
Accumulate_torque(a, torque) == [a EXCEPT !.torque = @ + torque]

\* the collection loop without the call that empties the accumulators
InjectLoadNoClear(a, load) ==
    Accumulate_torque(Accumulate_force(a, load.force), load.torque)

\* the accumulators of a body after the three calls of the collection loop
InjectLoad(a, load) ==
    Accumulate_torque(Accumulate_force(Empty_forces_accumulators(a), load.force), load.torque)

RECURSIVE CollectAll(_, _)
\* the accumulators after the passes i = k, k + 1, ... of the collection loop
CollectAll(a, k) ==
    IF k < Len(wheel_bodies)
    THEN CollectAll([a EXCEPT ![wheel_bodies[k + 1]] =
                         InjectLoad(@, CollectMeshContactForces(k))], k + 1)
    ELSE a

\* for (i = 0; i < wheel_bodies.size(); i++) { collect, empty, accumulate }
CollectForces ==
    /\ pc = "collect"
    /\ acc' = CollectAll(acc, 0)
    /\ collected' = [k \in 1..Len(wheel_bodies) |->
                        [body |-> wheel_bodies[k], step |-> curr_step, soup |-> k - 1,
                         load |-> CollectMeshContactForces(k - 1)]]
    /\ log' = log \o [k \in 1..Len(wheel_bodies) |-> <<"collect", k - 1, wheel_bodies[k]>>]
    /\ pc' = NextStage("collect")
    /\ UNCHANGED <<inputs, files, proc, cfg, gpu, rover_made, rover_steps, body_fixed,
                   pose, globals, release, out_dir, loopv, outfiles, collision_sets>>

\* writeMeshFrames: one row of the mesh-frame log
writeMeshFrames(body, obj_name, mesh_scaling) ==
    [mesh_name |-> obj_name, body |-> body, pose |-> pose[body],
     dz |-> terrain_height_offset, scale |-> mesh_scaling]

\* the text built in outstream for one frame
MeshFrameText ==
    <<"mesh_name,dx,dy,dz,x1,x2,x3,y1,y2,y3,z1,z2,z3,sx,sy,sz">>
    \o [k \in 1..Len(wheel_bodies) |->
           writeMeshFrames(wheel_bodies[k], "wheel_scaled.obj", "wheel_scaling")]
    \o <<writeMeshFrames(chassis_body, "MER_body.obj", "METERS_TO_CM")>>

\* the body of if (curr_step % out_steps == 0): gpu_sys.WriteFile of the
\* terrain snapshot, the mesh-frame text, and the file
\* <output_dir>/step<currframe>_meshes.csv, which the ofstream can open only
\* if <output_dir> exists in the working directory; then currframe++.  The
\* std::endl of the frame's first line flushes the buffer
EmitFrame ==
    /\ stdout' = stdout \o buffered
    /\ buffered' = <<>>
    /\ snapshots' = snapshots + 1
    /\ outstream' = MeshFrameText
    /\ IF cwd_out_dir
       THEN /\ meshfile' = [name |-> currframe, text |-> MeshFrameText]
            /\ mesh_files' = mesh_files \cup {currframe}
       ELSE UNCHANGED <<meshfile, mesh_files>>
    /\ currframe' = currframe + 1
    /\ log' = Append(log, <<"frame", currframe>>)

\* the branch not taken: nothing is written
SkipFrame ==
    UNCHANGED <<stdout, buffered, snapshots, outstream, meshfile, mesh_files, currframe, log>>

\* the frame test if it were met at the last step of every K instead of the first
FrameDueAtLast(step, K) == step % K = K - 1

\* curr_step % out_steps == 0
FrameDue(step, K) == step % K = 0

\* if (curr_step % out_steps == 0) with a non-zero divisor
FrameCheck ==
    /\ pc = "frame"
    /\ out_steps > 0
    /\ IF FrameDue(curr_step, out_steps) THEN EmitFrame ELSE SkipFrame
    /\ pc' = NextStage("frame")
    /\ UNCHANGED <<inputs, files, exit_code, cfg, gpu, rover, globals, release, out_dir,
                   out_steps, curr_step, t, checkpoint, collision_sets, collected>>

\* curr_step % 0 is undefined: the process may be killed by the division trap,
\* which leaves the lines in the buffer undelivered, or go on with either
\* outcome of the comparison
FrameCheckUndefined ==
    /\ pc = "frame"
    /\ out_steps = 0
    /\ \/ /\ pc' = "exited"
          /\ exit_code' = Trapped
          /\ SkipFrame
       \/ /\ pc' = NextStage("frame")
          /\ EmitFrame
          /\ UNCHANGED exit_code
       \/ /\ pc' = NextStage("frame")
          /\ SkipFrame
          /\ UNCHANGED exit_code
    /\ UNCHANGED <<inputs, files, cfg, gpu, rover, globals, release, out_dir,
                   out_steps, curr_step, t, checkpoint, collision_sets, collected>>

\* t += iteration_step, curr_step++; the next iteration starts a new log
LoopInc ==
    /\ pc = "loop_inc"
    /\ t' = FloatAdd(t, iteration_step)
    /\ curr_step' = curr_step + 1
    /\ log' = <<>>
    /\ pc' = "loop_test"
    /\ UNCHANGED <<inputs, files, proc, cfg, gpu, rover, globals, release, out_dir,
                   out_steps, currframe, outfiles, collision_sets, collected>>

\* the end of the run if the checkpoint were written in any mode
WritesCheckpointAlways(mode) == TRUE

\* if (run_mode == RUN_MODE::SETTLING) after the loop
WritesCheckpoint(mode) == mode = SETTLING

\* the file gpu_sys.WriteFile makes of each list of particles tried
SavedFiles == [pts \in PointLists |-> WriteFile(pts)]

\* after the loop: SETTLING switches the output mode to CSV and writes the
\* particles the terrain then holds to the checkpoint file; the time line
\* ends with std::endl; return 0
PhaseEnd ==
    /\ pc = "phase_end"
    /\ IF WritesCheckpoint(run_mode)
       THEN /\ output_mode' = "CSV"
            /\ checkpoint' = Append(checkpoint, [format |-> "CSV", step |-> curr_step])
            /\ \E pts \in PointLists :
                  /\ particles' = pts
                  /\ cp_lines' = SavedFiles[pts]
            /\ cp_file' = "present"
       ELSE UNCHANGED <<output_mode, checkpoint, files>>
    /\ stdout' = stdout \o buffered
    /\ buffered' = <<>>
    /\ exit_code' = 0
    /\ pc' = "exited"
    /\ UNCHANGED <<inputs, cfg, body_points, positions_set, gpu_made, gpu_init,
                   meshes, mesh_collision, gpu_steps, soup_pose, soup_load, max_z, rover,
                   globals, release, out_dir, loopv, outstream, mesh_files, meshfile,
                   snapshots, hist>>

Next ==
    \/ CheckArgs
    \/ ReadArgs
    \/ MakeGpuSys
    \/ LoadPoints
    \/ MakeRover
    \/ addWheelBody
    \/ LoadMeshes
    \/ CreateOutDir
    \/ InitializeGpu
    \/ ComputeCadence
    \/ ConfigureMode
    \/ LoopTest
    \/ ReleaseCheck
    \/ PushPose
    \/ AdvanceGpu
    \/ AdvanceRover
    \/ CollectForces
    \/ FrameCheck
    \/ FrameCheckUndefined
    \/ LoopInc
    \/ PhaseEnd

Spec == Init /\ [][Next]_vars

(***************************************************************************)
(* A SETTLING run followed by a TESTING run in the same directory: the     *)
(* second reads the checkpoint the first has written.                      *)
(***************************************************************************)
InitCheckpoint ==
    /\ argc = 5
    /\ parse_ok = TRUE
    /\ argv_mode = SETTLING
    /\ grav_arg = <<"2", "0">>
    /\ step_size \in {<<1, 50>>, <<1, 2>>}
    /\ cwd_out_dir \in BOOLEAN
    /\ stdout_tty \in BOOLEAN
    /\ cp_file = "missing"
    /\ cp_lines = <<>>
    /\ particles = <<>>
    /\ time_end \in {FxInt(c) : c \in ConfigTimeEnds}
    /\ Fresh

\* the program is started again with argv[2] = 1 after the SETTLING run has
\* returned: a new process (every variable of Fresh as at the start), the
\* same command line otherwise, the same files
RunTesting ==
    /\ pc = "exited"
    /\ exit_code = 0
    /\ argv_mode = SETTLING
    /\ argv_mode' = TESTING
    /\ time_end' \in {FxInt(c) : c \in ConfigTimeEnds}
    /\ pc' = "start"
    /\ exit_code' = Running
    /\ stdout' = <<>>
    /\ buffered' = <<>>
    /\ run_mode' = NoMode
    /\ iteration_step' = FxZero
    /\ body_points' = <<>>
    /\ positions_set' = FALSE
    /\ gpu_made' = FALSE
    /\ gpu_init' = FALSE
    /\ meshes' = <<>>
    /\ mesh_collision' = TRUE
    /\ output_mode' = "config"
    /\ gpu_steps' = 0
    /\ soup_pose' = <<>>
    /\ soup_load' = <<>>
    /\ max_z' = 0
    /\ rover_made' = FALSE
    /\ rover_steps' = 0
    /\ body_fixed' = <<>>
    /\ pose' = <<>>
    /\ acc' = <<>>
    /\ mesh_filenames' = <<>>
    /\ wheel_bodies' = <<>>
    /\ chassis_fixed' = FALSE
    /\ terrain_height_offset' = 0
    /\ out_dir' = "none"
    /\ out_steps' = 0
    /\ currframe' = 0
    /\ curr_step' = 0
    /\ t' = FxZero
    /\ outstream' = <<>>
    /\ mesh_files' = {}
    /\ meshfile' = <<>>
    /\ snapshots' = 0
    /\ checkpoint' = <<>>
    /\ log' = <<>>
    /\ releases' = 0
    /\ release_step' = 0 - 1
    /\ below' = 0
    /\ collision_sets' = 0
    /\ collected' = <<>>
    /\ UNCHANGED <<argc, parse_ok, grav_arg, step_size, cwd_out_dir, stdout_tty, files>>

\* the second run is followed until its particles are loaded
LoadedAgain == argv_mode = TESTING /\ pc = "make_rover"

NextCheckpoint ==
    \/ (~LoadedAgain /\ Next)
    \/ RunTesting

SpecCheckpoint == InitCheckpoint /\ [][NextCheckpoint]_vars


(***************************************************************************)
(* Properties.                                                             *)
(***************************************************************************)
LoopBodyPcs == {"push", "gpu_advance", "rover_advance", "collect", "frame", "loop_inc"}

InLoopBody == pc \in LoopBodyPcs

\* the loop has been entered, or the run has ended after entering it
LoopReached == pc \in (LoopBodyPcs \cup {"loop_test", "release", "phase_end"})
               \/ (pc = "exited" /\ gpu_init)

FrameInLog == \E k \in 1..Len(log) : log[k][1] = "frame"

IsPrefix(a, b) == Len(a) <= Len(b) /\ \A k \in 1..Len(a) : a[k] = b[k]

\* C1: the chassis release fires at most once, in the first iteration whose t
\* is at least 0.5: the one-shot flag and the body's fixed state agree, every
\* iteration before the release had t < 0.5, in every iteration the chassis is
\* fixed during the rigid-body advance exactly when t < 0.5, and once free it
\* stays free.
C1_ReleaseOnceAtThreshold ==
    /\ releases <= 1
    /\ rover_made =>
          /\ body_fixed[chassis_body] = chassis_fixed
          /\ chassis_fixed <=> (releases = 0)
    /\ releases = 1 => /\ release_step = below
                       /\ release_step <= curr_step
    /\ InLoopBody =>
          /\ chassis_fixed <=> FxLess(t, FxHalf)
          /\ \A k \in 1..Len(log) :
                log[k][1] = "rover" => (log[k][2] <=> FxLess(t, FxHalf))

\* C1 witness: the release has fired in a later iteration than the first, and
\* the rigid-body model has advanced with the chassis free afterwards
C1_Witness ==
    /\ releases = 1
    /\ release_step > 1
    /\ curr_step > release_step
    /\ pc = "collect"
    /\ log[Len(log)][1] = "rover"
    /\ log[Len(log)][2] = FALSE

\* the operation of a log entry, with the wheel index where it has one
Shape(e) == IF e[1] \in {"push", "collect"} THEN <<e[1], e[2]>> ELSE <<e[1]>>

\* one whole iteration: push per wheel, terrain advance, rigid-body advance,
\* collection and injection per wheel, frame
IterationOrder ==
    [k \in 1..NumWheels |-> <<"push", k - 1>>]
    \o << <<"gpu">>, <<"rover">> >>
    \o [k \in 1..NumWheels |-> <<"collect", k - 1>>]
    \o << <<"frame">> >>

\* C2: within every iteration the operations happen in the order push (every
\* wheel), terrain advance, rigid-body advance, collect and inject (every
\* wheel), frame; each stage is complete before the next starts, and with a
\* non-zero cadence the frame is emitted on cadence steps only.
C2_IterationOrder ==
    /\ InLoopBody => IsPrefix([k \in 1..Len(log) |-> Shape(log[k])], IterationOrder)
    /\ pc \in {"release", "push"} => Len(log) = 0
    /\ pc = "gpu_advance" => Len(log) = NumWheels
    /\ pc = "rover_advance" => Len(log) = NumWheels + 1
    /\ pc = "collect" => Len(log) = NumWheels + 2
    /\ pc = "frame" => Len(log) = 2 * NumWheels + 2
    /\ pc = "loop_inc" =>
          /\ Len(log) = 2 * NumWheels + 2 + (IF FrameInLog THEN 1 ELSE 0)
          /\ out_steps > 0 => (FrameInLog <=> curr_step % out_steps = 0)

\* C2 witness: an iteration after the first that went through every stage and
\* emitted a frame
C2_Witness ==
    /\ pc = "loop_inc"
    /\ curr_step > 0
    /\ out_steps > 0
    /\ FrameInLog
    /\ Len(log) = 2 * NumWheels + 3

\* the loads that were in the accumulators during this iteration's rigid-body
\* advance
AppliedLoads == log[NumWheels + 2][3]

\* C3: after the injection stage of a step every wheel's accumulators hold
\* exactly the load the terrain reported for its soup in that step; until the
\* stage starts they still hold the previous step's load.
C3_AccumulatorsHoldStepLoad ==
    /\ pc \in {"frame", "loop_inc"} =>
          \A k \in 1..Len(wheel_bodies) : acc[wheel_bodies[k]] = soup_load[k]
    /\ pc = "collect" =>
          \A k \in 1..Len(wheel_bodies) :
             acc[wheel_bodies[k]] = AppliedLoads[wheel_bodies[k]]

\* C3 witness: the injection of a step is complete, the step before it left a
\* non-zero load in the accumulators and this step reported a different
\* non-zero load
C3_Witness ==
    /\ pc = "frame"
    /\ curr_step > 0
    /\ AppliedLoads[wheel_bodies[1]].force > 0
    /\ soup_load[1].force > 0
    /\ acc[wheel_bodies[1]] = soup_load[1]

\* C4 as claimed: seven soups are registered (six wheels and the chassis), and
\* from the release on the chassis pose is pushed and its load injected.
C4_ChassisIsCoupled ==
    /\ gpu_init => Len(meshes) = NumWheels + 1
    /\ (pc = "frame" /\ ~chassis_fixed) =>
          /\ \E k \in 1..Len(log) : log[k][1] = "push" /\ log[k][3] = chassis_body
          /\ \E k \in 1..Len(log) : log[k][1] = "collect" /\ log[k][3] = chassis_body

\* the duration of the phase in whole seconds
Duration == IF run_mode = SETTLING THEN time_settling ELSE time_running

\* C5 as claimed: in either mode the loop ends after exactly duration / h
\* iterations, each having advanced each solver once.
C5_ExactStepCount ==
    (pc = "phase_end" /\ run_mode \in RunModes) =>
       /\ curr_step * step_size[1] = Duration * step_size[2]
       /\ gpu_steps = curr_step
       /\ rover_steps = curr_step

\* C6 as claimed: in TESTING mode with the checkpoint file missing the process
\* ends with a non-zero status and the checkpoint-read message, before the
\* output directory, the terrain model's initialization and any step.
C6_ReadErrorReported ==
    (run_mode = TESTING /\ cp_file = "missing" /\ pc \notin {"make_gpu", "points"}) =>
       /\ pc = "exited"
       /\ exit_code \notin {Running, 0}
       /\ \E k \in 1..Len(stdout) : stdout[k] = "ERROR reading checkpoint file"
       /\ out_dir = "none"
       /\ ~gpu_init
       /\ curr_step = 0
       /\ mesh_files = {} /\ snapshots = 0 /\ checkpoint = <<>>

\* C6: in TESTING mode with the checkpoint file missing the process ends
\* before the output directory is created, the terrain model initialized or a
\* step run, and it writes no file.  When argv[4] is a number std::stod
\* accepts, the end comes right after the attempt to load the file, with
\* status 1 and the checkpoint-read message; otherwise std::stod throws
\* before the file is looked at, and the process is aborted without that
\* message.
C6_MissingCheckpointIsFatal ==
    (run_mode = TESTING /\ cp_file = "missing" /\ pc \notin {"make_gpu", "points"}) =>
       /\ pc = "exited"
       /\ IF stod(grav_arg).ok
          THEN /\ exit_code = 1
               /\ stdout = <<"Gravity", "ERROR reading checkpoint file">>
          ELSE /\ exit_code = Aborted
               /\ stdout = <<>>
       /\ out_dir = "none"
       /\ ~gpu_init
       /\ ~rover_made
       /\ ~positions_set
       /\ gpu_steps = 0 /\ rover_steps = 0 /\ curr_step = 0
       /\ mesh_files = {} /\ snapshots = 0 /\ checkpoint = <<>>

\* C6 witness: a TESTING run that found no checkpoint file and has ended with
\* the checkpoint-read message
C6_Witness ==
    /\ run_mode = TESTING
    /\ cp_file = "missing"
    /\ stod(grav_arg).ok
    /\ pc = "exited"
    /\ exit_code = 1
    /\ stdout = <<"Gravity", "ERROR reading checkpoint file">>

\* round(1 / (out_fps * h)) of the decimal step size n / d, in exact
\* arithmetic
RoundCadence(step) == (2 * step[2] + out_fps * step[1]) \div (2 * out_fps * step[1])

\* C7 as claimed: a frame is emitted exactly at the steps whose index is a
\* multiple of round(1 / (out_fps * h)).
C7_RoundedCadence ==
    (pc = "loop_inc" /\ RoundCadence(step_size) > 0) =>
       (FrameInLog <=> curr_step % RoundCadence(step_size) = 0)

\* C8 as claimed: every emitted mesh-frame log holds the header and seven
\* rows, wheels in creation order and the chassis last, also while the
\* chassis is fixed, and frame n goes to a file of its own, file n.
C8_SevenRowsPerFrame ==
    /\ mesh_files = 0..(currframe - 1)
    /\ snapshots = currframe
    /\ currframe > 0 =>
          /\ meshfile # <<>>
          /\ meshfile.name = currframe - 1
          /\ meshfile.text = outstream
          /\ Len(outstream) = NumWheels + 2
          /\ outstream[1] = "mesh_name,dx,dy,dz,x1,x2,x3,y1,y2,y3,z1,z2,z3,sx,sy,sz"
          /\ \A k \in 1..NumWheels :
                /\ outstream[k + 1].body = wheel_bodies[k]
                /\ outstream[k + 1].mesh_name = "wheel_scaled.obj"
          /\ outstream[NumWheels + 2].body = chassis_body
          /\ outstream[NumWheels + 2].mesh_name = "MER_body.obj"

\* C9: mesh-terrain collision is set at most once, before the first step; in
\* a SETTLING or TESTING run it is set exactly once and during every terrain
\* advance it is off in SETTLING and on in TESTING; in no other mode is it set.
C9_CollisionByMode ==
    /\ collision_sets <= 1
    /\ collision_sets = 1 => run_mode \in RunModes
    /\ run_mode \in RunModes =>
          /\ gpu_steps > 0 => collision_sets = 1
          /\ LoopReached => /\ collision_sets = 1
                            /\ mesh_collision = (run_mode = TESTING)
          /\ \A k \in 1..Len(log) :
                log[k][1] = "gpu" => log[k][2] = (run_mode = TESTING)

\* C9 witness: a SETTLING run has advanced the terrain twice with collision off
C9_Witness ==
    /\ run_mode = SETTLING
    /\ gpu_steps > 1
    /\ mesh_collision = FALSE
    /\ pc = "rover_advance"

\* C10: the checkpoint is written at most once, only in SETTLING, only after
\* the loop has ended and the output mode is CSV; a run that returns has
\* written it exactly once in SETTLING and never in another mode.
C10_CheckpointAtPhaseEnd ==
    /\ Len(checkpoint) <= 1
    /\ Len(checkpoint) = 1 =>
          /\ run_mode = SETTLING
          /\ pc = "exited"
          /\ ~FxLess(t, time_end)
          /\ checkpoint[1].format = "CSV"
          /\ output_mode = "CSV"
          /\ checkpoint[1].step = curr_step
          /\ gpu_steps = curr_step
          /\ cp_file = "present"
          /\ cp_lines = WriteFile(particles)
    /\ (pc = "exited" /\ exit_code = 0) =>
          Len(checkpoint) = (IF run_mode = SETTLING THEN 1 ELSE 0)
    /\ pc # "exited" => output_mode = "config"

\* C10 witness: a SETTLING run has returned after several steps with its
\* checkpoint written
C10_Witness ==
    /\ pc = "exited"
    /\ exit_code = 0
    /\ run_mode = SETTLING
    /\ curr_step > 1
    /\ Len(checkpoint) = 1

\* v lies below the normal values of a float
BelowNormal(v) == v.kind = "finite" /\ v.mant # 0 /\ FloatLog2(v) < FloatMinExp

\* the decimal notation of v has FileDigits significant digits at most: v is
\* mant * 2^exp with an odd mant, so its digits are those of mant * 5^-exp
\* for a negative exp, and those of mant * 2^exp otherwise (taken as too many
\* when that number has more than FileDigits digits)
ShortDecimal(v) ==
    /\ v.kind = "finite"
    /\ \/ v.mant = 0
       \/ /\ v.exp < 0
          /\ 0 - v.exp <= FileDigits + 2
          /\ v.mant <= (SmallPow(Len(Digits), FileDigits) - 1) \div SmallPow(5, 0 - v.exp)
       \/ /\ v.exp >= 0
          /\ v.exp <= FloatBits
          /\ v.mant <= (SmallPow(Len(Digits), FileDigits) - 1) \div (2 ^ v.exp)

\* |v| in units of 2^e, for e <= v.exp
Magnitude(v, e) == BigShiftLeft(IntToBig(v.mant), v.exp - e)

\* |a - b| <= |a| / 10^(FileDigits - 1), a and b in the same unit
BigNear(a, b) ==
    /\ BigLeq(BigTimesPow(b, Len(Digits), FileDigits - 1),
              BigAdd(BigTimesPow(a, Len(Digits), FileDigits - 1), a))
    /\ BigLeq(BigTimesPow(a, Len(Digits), FileDigits - 1),
              BigAdd(BigTimesPow(b, Len(Digits), FileDigits - 1), a))

\* the loaded value agrees with the saved one to the precision of the file:
\* the same sign, and the two differ by no more than the saved value's
\* 10^(FileDigits - 1)-th part
Agrees(saved, loaded) ==
    /\ loaded.kind = "finite"
    /\ loaded.neg = saved.neg
    /\ BigNear(Magnitude(saved, IF saved.exp < loaded.exp THEN saved.exp ELSE loaded.exp),
               Magnitude(loaded, IF saved.exp < loaded.exp THEN saved.exp ELSE loaded.exp))

\* solver, read no checkpoint, made no output directory and run no step
C12_UsageAndExitOne ==
    ((argc # 5 \/ ~parse_ok) /\ pc # "start") =>
       /\ pc = "exited"
       /\ exit_code = 1
       /\ stdout = <<"usage">>
       /\ ~gpu_made /\ ~gpu_init /\ ~rover_made
       /\ body_points = <<>> /\ ~positions_set
       /\ meshes = <<>> /\ wheel_bodies = <<>>
       /\ out_dir = "none"
       /\ gpu_steps = 0 /\ rover_steps = 0 /\ curr_step = 0
       /\ mesh_files = {} /\ snapshots = 0 /\ checkpoint = <<>>

\* C12 witness: the right number of arguments, but a configuration file that
\* does not parse, and the run has ended
C12_Witness ==
    /\ argc = 5
    /\ ~parse_ok
    /\ pc = "exited"
    /\ exit_code = 1
    /\ stdout = <<"usage">>

\* the wheels, as bodies of rover_sys
Wheels == {wheel_bodies[k] : k \in 1..Len(wheel_bodies)}

\* the rigid-body advance of the current iteration has just returned: it is
\* the last operation in the log
RoverJustAdvanced == log # <<>> /\ log[Len(log)][1] = "rover"

\* the loads that were in the accumulators during that advance
LoadsAtAdvance == log[Len(log)][3]

\* C13: the loads collected in step k are the ones in the wheels'
\* accumulators during the rigid-body advance of step k + 1 and of no other
\* step; the advance of step 0 runs with empty accumulators; the loads
\* collected in the last step are never applied
C13_OneStepLag ==
    /\ RoverJustAdvanced =>
          IF curr_step = 0
          THEN /\ collected = <<>>
               /\ \A b \in Bodies : LoadsAtAdvance[b] = NoLoad
          ELSE /\ Len(collected) = NumWheels
               /\ \A k \in 1..Len(collected) :
                     /\ collected[k].step = curr_step - 1
                     /\ LoadsAtAdvance[collected[k].body] = collected[k].load
    /\ (pc \in {"loop_test", "phase_end"} \/ (pc = "exited" /\ LoopReached)) =>
          \A k \in 1..Len(collected) :
             /\ collected[k].body \in Wheels
             /\ collected[k].step = rover_steps - 1
             /\ acc[collected[k].body] = collected[k].load

\* C13 witness: the advance of step 1 has just run under the non-zero loads
\* collected in step 0
C13_Witness ==
    /\ RoverJustAdvanced
    /\ curr_step = 1
    /\ \A k \in 1..NumWheels : collected[k].step = 0 /\ collected[k].load.force > 0
    /\ LoadsAtAdvance[wheel_bodies[1]] = Load(1, 0)

\* C14: at every loop boundary the terrain advances, the rigid-body advances
\* and the step counter agree; within an iteration the terrain advance is
\* complete before the rigid-body advance starts, so the rigid-body model is
\* never ahead and never more than one advance behind
C14_LockStep ==
    /\ rover_steps <= gpu_steps
    /\ gpu_steps <= rover_steps + 1
    /\ pc \in {"loop_test", "phase_end"} =>
          (gpu_steps = curr_step /\ rover_steps = curr_step)
    /\ pc \in {"release", "push", "gpu_advance"} =>
          (gpu_steps = curr_step /\ rover_steps = curr_step)
    /\ pc = "rover_advance" => (gpu_steps = curr_step + 1 /\ rover_steps = curr_step)
    /\ pc \in {"collect", "frame", "loop_inc"} =>
          (gpu_steps = curr_step + 1 /\ rover_steps = curr_step + 1)
    /\ gpu_steps # rover_steps => pc = "rover_advance"

\* C14 witness: in the third iteration the terrain has advanced and the
\* rigid-body advance is about to start
C14_Witness ==
    /\ pc = "rover_advance"
    /\ curr_step = 2
    /\ gpu_steps = 3
    /\ rover_steps = 2

\* C15: soup i is the i-th wheel created.  The mesh list and the wheel list
\* grow together and have the same length when the meshes are loaded; the
\* pose pushed to soup i is that of wheel i; the load collected from soup i
\* goes into the accumulators of wheel i and of no other body
C15_SoupIndexIsWheelIndex ==
    /\ Len(mesh_filenames) = Len(wheel_bodies)
    /\ \A k \in 1..Len(wheel_bodies) : wheel_bodies[k] = chassis_body + k
    /\ meshes # <<>> => (Len(meshes) = NumWheels /\ Len(wheel_bodies) = NumWheels)
    /\ \A k \in 1..Len(soup_pose) :
          soup_pose[k] # <<>> => soup_pose[k][1] = wheel_bodies[k]
    /\ pc \in {"gpu_advance", "rover_advance"} =>
          \A k \in 1..Len(soup_pose) :
             soup_pose[k] = <<wheel_bodies[k], pose[wheel_bodies[k]]>>
    /\ \A b \in DOMAIN acc :
          acc[b] = IF \E k \in 1..Len(collected) : collected[k].body = b
                   THEN collected[CHOOSE k \in 1..Len(collected) : collected[k].body = b].load
                   ELSE NoLoad
    /\ \A k \in 1..Len(collected) :
          /\ collected[k].body = wheel_bodies[k]
          /\ collected[k].soup = k - 1
          /\ pc \in {"frame", "loop_inc"} => collected[k].load = soup_load[k]

\* C15 witness: a collection loop has ended with a different load in each
\* wheel, each taken from the wheel's own soup
C15_Witness ==
    /\ pc = "frame"
    /\ curr_step = 1
    /\ \A k \in 1..NumWheels :
          /\ acc[wheel_bodies[k]] = Load(1, k - 1)
          /\ soup_pose[k][1] = wheel_bodies[k]
    /\ acc[chassis_body] = NoLoad

\* the value given at setup: params.box_Z + height_offset_chassis_to_bottom
SetupOffset == BoxZ + height_offset_chassis_to_bottom

\* the rows of the mesh-frame text built last
FrameRows == Tail(outstream)

\* C16: terrain_height_offset is written at setup and at the release only.
\* It is recomputed from the terrain's maximum particle height exactly once,
\* at the release; no other step, no solver advance and no frame emission
\* changes it; the frame recorder adds it to the rows it writes, the pose push
\* and the force injection do not use it
C16_OffsetWrittenAtSetupAndRelease ==
    /\ [][terrain_height_offset' # terrain_height_offset =>
             \/ (pc = "make_rover" /\ terrain_height_offset' = SetupOffset)
             \/ /\ pc = "release"
                /\ releases = 0 /\ releases' = 1
                /\ terrain_height_offset' = max_z + height_offset_chassis_to_bottom]_vars
    /\ [](~rover_made => terrain_height_offset = 0)
    /\ []((rover_made /\ releases = 0) => terrain_height_offset = SetupOffset)
    /\ [](FrameInLog => \A k \in 1..Len(FrameRows) :
                           /\ FrameRows[k].dz = terrain_height_offset
                           /\ FrameRows[k].pose = pose[FrameRows[k].body])
    /\ [](\A k \in 1..Len(soup_pose) :
             pc \in {"gpu_advance", "rover_advance"} =>
                soup_pose[k][2] = pose[wheel_bodies[k]])
    /\ [](\A k \in 1..Len(collected) : acc[collected[k].body] = collected[k].load)

\* C16 witness: after the release a frame has been built with the recomputed
\* offset, which is lower than the one given at setup
C16_Witness ==
    /\ releases = 1
    /\ curr_step > release_step
    /\ pc = "loop_inc"
    /\ FrameInLog
    /\ terrain_height_offset < SetupOffset
    /\ FrameRows[1].dz = terrain_height_offset

\* C17 as claimed: for every configured step size the divisor out_steps is at
\* least 1 when the loop runs, so curr_step % out_steps is never a modulo by
\* zero
C17_CadenceDivisorPositive == LoopReached => out_steps >= 1

\* steps whose frame test has been passed: the completed steps, and the
\* current one once its frame stage is over
StepsFramed == IF pc = "loop_inc" THEN curr_step + 1 ELSE curr_step

\* ceil(n / K) for K >= 1
CeilDiv(n, K) == (n + K - 1) \div K

\* C18: frames are numbered 0, 1, 2, ... without gap or repeat, and the frame
\* counter counts exactly the frames emitted; the files written, if the
\* output directory can be written to, carry the same numbers.  With a
\* cadence K >= 1 the first frame is emitted in step 0, after that step's
\* advances and collection, the frame emitted in step s has number s / K, and
\* after n steps ceil(n / K) frames have been emitted
C18_FramesNumberedConsecutively ==
    /\ snapshots = currframe
    /\ mesh_files = (IF cwd_out_dir THEN 0..(currframe - 1) ELSE {})
    /\ (currframe > 0 /\ cwd_out_dir) => meshfile.name = currframe - 1
    /\ FrameInLog =>
          /\ Len(log) = Len(IterationOrder)
          /\ log[Len(log)] = <<"frame", currframe - 1>>
          /\ log[NumWheels + 1][1] = "gpu"
          /\ log[NumWheels + 2][1] = "rover"
          /\ log[2 * NumWheels + 2][1] = "collect"
    /\ (LoopReached /\ out_steps >= 1) =>
          /\ currframe = CeilDiv(StepsFramed, out_steps)
          /\ FrameInLog => curr_step = (currframe - 1) * out_steps
          /\ (curr_step > 0 \/ pc = "loop_inc") => currframe >= 1
          /\ (curr_step = 0 /\ pc # "loop_inc") => currframe = 0

\* C18 witness: with a cadence of 4 steps the third frame, number 2, has just
\* been emitted in step 8 and written to the third file
C18_Witness ==
    /\ out_steps = 4
    /\ curr_step = 8
    /\ pc = "loop_inc"
    /\ FrameInLog
    /\ currframe = 3
    /\ mesh_files = {0, 1, 2}

====
